---- MODULE Spec2Model ----
(***************************************************************************)
(* Tiered storage resilience engine of the AI-Chrome-Extension repository: *)
(*   - ErrorHandler / retryOperation      (src/errorRecovery.js)           *)
(*   - StorageLayerManager                (src/storageLayerManager.js)     *)
(*   - StorageManager                     (src/unnamed/part_003)           *)
(*   - ProfileStorage                     (src/profileStorage.js)          *)
(* The specifications share the variables: SpecRetry (and SpecRetryFair)   *)
(* drives retryOperation with an arbitrary operation, Spec drives the      *)
(* StorageLayerManager, SpecRetryTier drives a save of the                 *)
(* StorageLayerManager wrapped in retryOperation, SpecProfile drives       *)
(* ProfileStorage on top of StorageManager with one updateProfile in       *)
(* flight, SpecOverlap drives it with the profile detector's three         *)
(* updateProfile calls in flight together, and SpecValidate drives         *)
(* StorageManager.hasValidProfile.                                         *)
(***************************************************************************)
EXTENDS Integers, Sequences, FiniteSets, TLC

VARIABLES
  lastError,    \* ErrorHandler.lastError
  errorCount,   \* ErrorHandler.errorCount
  errorInfo,    \* the value handleError returned last
  call,         \* the retryOperation call in flight (or the last one settled)
  layerHealth,  \* StorageLayerManager.layerHealth
  backend,      \* what each storage backend holds under each key
  last,         \* the StorageLayerManager call completed last (observation)
  lastSaved,    \* per key: the value of the latest successful saveData since
                \* the key was last cleared (observation)
  profileData,  \* ProfileStorage.profileData
  isValid,      \* ProfileStorage.isValid
  upd,          \* the updateProfile / loadFromStorage call in flight
  lastSet,      \* per field: the value the latest updateProfile that mentioned
                \* the field gave it since the last clearProfile (observation)
  flights       \* per extractor of the profile detector: the updateProfile
                \* call it has in flight, when the three run together

vars ==
  <<lastError, errorCount, errorInfo, call, layerHealth, backend, last, lastSaved,
    profileData, isValid, upd, lastSet, flights>>

None == "none"

\* "No error": the null of ErrorHandler.lastError, and of a call that threw nothing.
NoMessage == [present |-> FALSE, words |-> <<>>]
NoError == [id |-> 0, name |-> None, message |-> NoMessage]
\* ErrorHandler.lastError before init() or handleError assigned it.
UndefinedError == [id |-> 0, name |-> "undefined", message |-> NoMessage]
\* ErrorHandler.errorCount: undefined before init(), a number after it, and
\* NaN once ++ was applied to undefined.
UndefinedCount == [defined |-> FALSE, nan |-> FALSE, n |-> 0]
Number(n) == [defined |-> TRUE, nan |-> FALSE, n |-> n]
NaN == [defined |-> TRUE, nan |-> TRUE, n |-> 0]
\* this.errorCount++
Increment(count) ==
  IF count.defined /\ ~count.nan THEN Number(count.n + 1) ELSE NaN
\* "No info": handleError was not called yet.
NoInfo == [type |-> None, shouldRetry |-> FALSE, context |-> None]
\* "No data": a call that carries or returned no stored value.
NoData == [absent |-> TRUE]

-----------------------------------------------------------------------------
(* Bounds of the model *)

\* longest error message, counted in words
MaxMsgLen == 2
\* ErrorHandler.errorCount above which no new retryOperation call is started
MaxErrorCount == 3

-----------------------------------------------------------------------------
(* src/errorRecovery.js: error taxonomy and configuration *)

StorageErrors ==
  [QUOTA_EXCEEDED |-> "QuotaExceededError",
   INVALID_DATA   |-> "InvalidDataError",
   API_ERROR      |-> "StorageAPIError",
   NETWORK_ERROR  |-> "NetworkError",
   TIMEOUT_ERROR  |-> "TimeoutError"]

Config ==
  [maxRetries    |-> 3,
   retryDelay    |-> 1000,
   maxDelay      |-> 5000,
   backoffFactor |-> 2]

\* An error message is a sequence of words, or NoMessage when the thrown
\* object has no message property.
Words == {"timeout", "network", "invalid", "format", "failed"}
Message(words) == [present |-> TRUE, words |-> words]
Messages ==
  {NoMessage} \cup {Message(w) : w \in UNION {[1..n -> Words] : n \in 0..MaxMsgLen}}
ErrorNames == {"Error", "QuotaExceededError"}

\* The failures an arbitrary operation can raise at its n-th invocation; id
\* is the identity of the thrown object within one retryOperation call.
Errors(n) == [id : {n}, name : ErrorNames, message : Messages]

\* error.message?.includes(word)
includes(message, word) ==
  /\ message.present
  /\ \E i \in 1..Len(message.words) : message.words[i] = word

\* A classifier that tests the message before the name.
classifyError_msgFirst(error) ==
  IF includes(error.message, "timeout") THEN StorageErrors.TIMEOUT_ERROR
  ELSE IF includes(error.message, "network") THEN StorageErrors.NETWORK_ERROR
  ELSE IF includes(error.message, "invalid") \/ includes(error.message, "format")
       THEN StorageErrors.INVALID_DATA
  ELSE IF error.name = "QuotaExceededError" THEN StorageErrors.QUOTA_EXCEEDED
  ELSE StorageErrors.API_ERROR

classifyError(error) ==
  IF error.name = "QuotaExceededError" THEN StorageErrors.QUOTA_EXCEEDED
  ELSE IF includes(error.message, "timeout") THEN StorageErrors.TIMEOUT_ERROR
  ELSE IF includes(error.message, "network") THEN StorageErrors.NETWORK_ERROR
  ELSE IF includes(error.message, "invalid") \/ includes(error.message, "format")
       THEN StorageErrors.INVALID_DATA
  ELSE StorageErrors.API_ERROR

\* A retry policy that also treats timeouts as terminal.
shouldRetryError_timeoutTerminal(error) ==
  classifyError(error) \notin
    {StorageErrors.QUOTA_EXCEEDED, StorageErrors.INVALID_DATA, StorageErrors.TIMEOUT_ERROR}

\* A retry policy that retries everything.
shouldRetryError_always(error) == error = error

shouldRetryError(error) ==
  LET errorType == classifyError(error)
      nonRetryableErrors == {StorageErrors.QUOTA_EXCEEDED, StorageErrors.INVALID_DATA}
  IN  errorType \notin nonRetryableErrors

\* The value handleError returns (the timestamp is left out: nothing reads it).
\* A handleError whose verdict depends on the context label.
handleError_byContext(error, context) ==
  [type        |-> classifyError(error),
   shouldRetry |-> shouldRetryError(error) /\ context # "ctx-b",
   context     |-> context]

handleError(error, context) ==
  [type        |-> classifyError(error),
   shouldRetry |-> shouldRetryError(error),
   context     |-> context]

RECURSIVE Pow(_, _)
Pow(b, e) == IF e = 0 THEN 1 ELSE b * Pow(b, e - 1)

Min(a, b) == IF a <= b THEN a ELSE b

\* A backoff whose exponent is the attempt number itself.
backoffDelay_offByOne(attempt) ==
  Min(Config.retryDelay * Pow(Config.backoffFactor, attempt), Config.maxDelay)

\* A delay that does not grow with the attempt.
backoffDelay_fixed(attempt) == Min(Config.retryDelay, Config.maxDelay)

\* Math.min(retryDelay * Math.pow(backoffFactor, attempt - 1), maxDelay)
backoffDelay(attempt) ==
  Min(Config.retryDelay * Pow(Config.backoffFactor, attempt - 1), Config.maxDelay)

-----------------------------------------------------------------------------
(* retryOperation: one call at a time; call.pc is where the call stands.   *)
(*   "idle"  no call was made yet                                          *)
(*   "delay" suspended in setTimeout between two attempts                  *)
(*   "done"  settled: call.outcome is "returned" or "threw"                *)

Contexts == {"ctx-a", "ctx-b"}

IdleCall ==
  [pc |-> "idle", kind |-> None, key |-> None, arg |-> NoData, context |-> None,
   attempt |-> 0, opCalls |-> 0, delays |-> <<>>, failures |-> 0,
   outcome |-> None, value |-> None, data |-> NoData,
   thrown |-> NoError, raised |-> NoError,
   allDown |-> FALSE, recovered |-> FALSE]

NewCall(kind, key, arg, context) ==
  [IdleCall EXCEPT !.kind = kind, !.key = key, !.arg = arg, !.context = context,
                   !.attempt = 1]

\* An operation's outcome: it returned value, or it raised error.
Returned(value, data) == [ok |-> TRUE, value |-> value, data |-> data, error |-> NoError]
Raised(error) == [ok |-> FALSE, value |-> None, data |-> NoData, error |-> error]

\* A retryOperation that rethrows a fresh error in place of the caught one.
retryOperation_wraps(c, res) ==
  LET d == [c EXCEPT !.opCalls = @ + 1] IN
  IF res.ok
  THEN [d EXCEPT !.pc = "done", !.outcome = "returned", !.value = res.value,
                 !.data = res.data]
  ELSE LET info == handleError(res.error, c.context)
           e == [d EXCEPT !.raised = res.error, !.failures = @ + 1]
       IN  IF ~info.shouldRetry \/ c.attempt >= Config.maxRetries
           THEN [e EXCEPT !.pc = "done", !.outcome = "threw",
                          !.thrown = [id |-> 0, name |-> "Error",
                                      message |-> Message(<<"failed">>)]]
           ELSE [e EXCEPT !.pc = "delay",
                          !.delays = Append(@, backoffDelay(c.attempt))]

\* A retryOperation that gives up one attempt late.
retryOperation_extraAttempt(c, res) ==
  LET d == [c EXCEPT !.opCalls = @ + 1] IN
  IF res.ok
  THEN [d EXCEPT !.pc = "done", !.outcome = "returned", !.value = res.value,
                 !.data = res.data]
  ELSE LET info == handleError(res.error, c.context)
           e == [d EXCEPT !.raised = res.error, !.failures = @ + 1]
       IN  IF ~info.shouldRetry \/ c.attempt > Config.maxRetries
           THEN [e EXCEPT !.pc = "done", !.outcome = "threw", !.thrown = res.error]
           ELSE [e EXCEPT !.pc = "delay",
                          !.delays = Append(@, backoffDelay(c.attempt))]

\* The body of retryOperation at attempt c.attempt, given the outcome res of
\* `await operation()`: the call record up to the next suspension or the end.
retryOperation(c, res) ==
  LET d == [c EXCEPT !.opCalls = @ + 1] IN
  IF res.ok
  THEN [d EXCEPT !.pc = "done", !.outcome = "returned", !.value = res.value,
                 !.data = res.data]
  ELSE LET info == handleError(res.error, c.context)
           e == [d EXCEPT !.raised = res.error, !.failures = @ + 1]
       IN  IF ~info.shouldRetry \/ c.attempt >= Config.maxRetries
           THEN [e EXCEPT !.pc = "done", !.outcome = "threw", !.thrown = res.error]
           ELSE [e EXCEPT !.pc = "delay",
                          !.delays = Append(@, backoffDelay(c.attempt))]

\* ErrorHandler.handleError's bookkeeping for the outcome res of an attempt.
ErrorHandlerAfter(c, res) ==
  IF res.ok
  THEN UNCHANGED <<lastError, errorCount, errorInfo>>
  ELSE /\ lastError' = res.error
       /\ errorCount' = Increment(errorCount)
       /\ errorInfo' = handleError(res.error, c.context)

\* The outcomes of one invocation of an arbitrary operation.
OpOutcomes(c) ==
  {Returned("success", NoData)} \cup {Raised(e) : e \in Errors(c.opCalls + 1)}

\* A new retryOperation call is started only while ErrorHandler.errorCount
\* leaves room for its failures (a count that is not a number never grows).
CountAllowsCall ==
  (errorCount.defined /\ ~errorCount.nan)
    => errorCount.n + Config.maxRetries <= MaxErrorCount

tierVars == <<layerHealth, backend, last, lastSaved>>
profileVars == <<profileData, isValid, upd, lastSet, flights>>

\* retryOperation(operation, context) is called: the first attempt runs at once.
RetryCall ==
  /\ call.pc = "idle"
  /\ CountAllowsCall
  /\ \E context \in Contexts :
       LET c == NewCall("op", None, NoData, context) IN
       \E res \in OpOutcomes(c) :
         /\ call' = retryOperation(c, res)
         /\ ErrorHandlerAfter(c, res)
  /\ UNCHANGED <<tierVars, profileVars>>

\* The setTimeout of a suspended call fires: retryOperation(..., attempt + 1).
RetryWake ==
  /\ call.pc = "delay"
  /\ call.kind = "op"
  /\ LET c == [call EXCEPT !.attempt = @ + 1] IN
     \E res \in OpOutcomes(c) :
       /\ call' = retryOperation(c, res)
       /\ ErrorHandlerAfter(c, res)
  /\ UNCHANGED <<tierVars, profileVars>>

\* The caller has taken the settled call's result or error.
RetrySettled ==
  /\ call.pc = "done"
  /\ call' = IdleCall
  /\ UNCHANGED <<lastError, errorCount, errorInfo>>
  /\ UNCHANGED <<tierVars, profileVars>>

\* ErrorHandler.init()
ErrorHandlerInit ==
  /\ ~errorCount.defined \/ errorCount.nan
  /\ lastError' = NoError
  /\ errorCount' = Number(0)
  /\ UNCHANGED <<errorInfo, call>>
  /\ UNCHANGED <<tierVars, profileVars>>

\* ErrorHandler.reset()
Reset ==
  /\ errorCount.defined /\ ~errorCount.nan /\ errorCount.n > 0
  /\ lastError' = NoError
  /\ errorCount' = Number(0)
  /\ UNCHANGED <<errorInfo, call>>
  /\ UNCHANGED <<tierVars, profileVars>>

-----------------------------------------------------------------------------
(* src/storageLayerManager.js *)

StorageLayers ==
  [PRIMARY   |-> "chrome.storage.local",
   SECONDARY |-> "localStorage",
   TERTIARY  |-> "sessionStorage"]

LayerStatus ==
  [AVAILABLE   |-> "available",
   UNAVAILABLE |-> "unavailable",
   FULL        |-> "full",
   ERROR       |-> "error"]

Layers == {StorageLayers.PRIMARY, StorageLayers.SECONDARY, StorageLayers.TERTIARY}

\* The fixed order in which saveData and loadData try the layers.
LayerOrder == <<StorageLayers.PRIMARY, StorageLayers.SECONDARY, StorageLayers.TERTIARY>>

\* The keys callers store under, and the throwaway key each probe uses.
Keys == {"linkedInProfile"}
TestKey ==
  [l \in Layers |->
     IF l = StorageLayers.PRIMARY THEN "_test_chrome_storage"
     ELSE IF l = StorageLayers.SECONDARY THEN "_test_local_storage"
     ELSE "_test_session_storage"]

\* The values callers store: records whose field tag may be undefined, and
\* the scalar false.
Undefined == "undefined"
False == [scalar |-> "false"]
Values == {[id |-> "v1", tag |-> Undefined], False}
\* if (x): everything stored here but false is truthy.
Truthy(x) == x # False

\* What a backend keeps of a value: its defined fields (JSON drops the rest).
Serialize(data) == [f \in {g \in DOMAIN data : data[g] # Undefined} |-> data[f]]
\* JSON.stringify(data) and JSON.parse(text): the text of a value.
JSONstringify(data) == [json |-> Serialize(data)]
JSONparse(text) == text.json

\* What is written under a key in layer l, and what is read back from it.
Encode(l, data) ==
  IF l = StorageLayers.PRIMARY THEN Serialize(data) ELSE JSONstringify(data)
Decode(l, stored) ==
  IF l = StorageLayers.PRIMARY THEN stored ELSE JSONparse(stored)
\* What a probe writes under its throwaway key.
ProbeValue(l) ==
  IF l = StorageLayers.PRIMARY THEN [literal |-> "true"] ELSE [literal |-> "test"]

\* One backend: a finite map from keys to what is stored.
Has(items, key) == key \in DOMAIN items
setItem(items, key, x) ==
  [k \in DOMAIN items \cup {key} |-> IF k = key THEN x ELSE items[k]]
removeItem(items, key) == [k \in DOMAIN items \ {key} |-> items[k]]

\* saveData from the i-th layer on; writeFails are the layers whose write throws.
RECURSIVE SaveFrom(_, _, _, _, _, _)
SaveFrom(i, health, store, key, data, writeFails) ==
  IF i > Len(LayerOrder)
  THEN [health |-> health, store |-> store, result |-> "threw", wrote |-> None]
  ELSE LET l == LayerOrder[i] IN
       IF health[l] = LayerStatus.AVAILABLE
       THEN IF l \in writeFails
            THEN SaveFrom(i + 1, [health EXCEPT ![l] = LayerStatus.ERROR],
                          store, key, data, writeFails)
            ELSE [health |-> health,
                  store  |-> [store EXCEPT ![l] = setItem(@, key, Encode(l, data))],
                  result |-> "true", wrote |-> l]
       ELSE SaveFrom(i + 1, health, store, key, data, writeFails)

\* A saveData that tries every layer whatever its health.
saveData_ignoresHealth(health, store, key, data, writeFails) ==
  SaveFrom(1, [l \in Layers |-> LayerStatus.AVAILABLE], store, key, data, writeFails)

\* A saveData that gives up after the primary layer.
saveData_noFallback(health, store, key, data, writeFails) ==
  IF health[StorageLayers.PRIMARY] = LayerStatus.AVAILABLE
     /\ StorageLayers.PRIMARY \notin writeFails
  THEN SaveFrom(1, health, store, key, data, writeFails)
  ELSE [health |-> health, store |-> store, result |-> "threw", wrote |-> None]

\* A saveData that tries the last layer of the order only.
saveData_lastLayerOnly(health, store, key, data, writeFails) ==
  SaveFrom(Len(LayerOrder), health, store, key, data, writeFails)

\* A saveData whose successful write marks every layer AVAILABLE.
saveData_restores(health, store, key, data, writeFails) ==
  LET r == SaveFrom(1, health, store, key, data, writeFails) IN
  IF r.result = "true"
  THEN [r EXCEPT !.health = [l \in Layers |-> LayerStatus.AVAILABLE]]
  ELSE r

\* A saveData that falls back without marking the layer whose write threw.
saveData_noMark(health, store, key, data, writeFails) ==
  [SaveFrom(1, health, store, key, data, writeFails) EXCEPT !.health = health]

\* A saveData that removes the key from the layers it did not write.
saveData_clearsStale(health, store, key, data, writeFails) ==
  LET r == SaveFrom(1, health, store, key, data, writeFails) IN
  [r EXCEPT !.store = [l \in Layers |->
                         IF r.result = "true" /\ l # r.wrote
                         THEN removeItem(r.store[l], key) ELSE r.store[l]]]

\* A saveData that marks the layer whose write threw FULL.
saveData_marksFull(health, store, key, data, writeFails) ==
  LET r == SaveFrom(1, health, store, key, data, writeFails) IN
  [r EXCEPT !.health = [l \in Layers |->
                          IF r.health[l] # health[l] THEN LayerStatus.FULL
                          ELSE r.health[l]]]

saveData(health, store, key, data, writeFails) ==
  SaveFrom(1, health, store, key, data, writeFails)

\* loadData from the i-th layer on; readFails are the layers whose read throws.
RECURSIVE LoadFrom(_, _, _, _, _)
LoadFrom(i, health, store, key, readFails) ==
  IF i > Len(LayerOrder)
  THEN [health |-> health, result |-> "null", data |-> NoData, from |-> None]
  ELSE LET l == LayerOrder[i] IN
       IF health[l] = LayerStatus.AVAILABLE
       THEN IF l \in readFails
            THEN LoadFrom(i + 1, [health EXCEPT ![l] = LayerStatus.ERROR],
                          store, key, readFails)
            ELSE IF Has(store[l], key) /\ Truthy(store[l][key])
                 THEN [health |-> health, result |-> "value",
                       data |-> Decode(l, store[l][key]), from |-> l]
                 ELSE LoadFrom(i + 1, health, store, key, readFails)
       ELSE LoadFrom(i + 1, health, store, key, readFails)

\* A loadData that lets the exception of a throwing read escape.
loadData_rethrows(health, store, key, readFails) ==
  IF \E l \in readFails : health[l] = LayerStatus.AVAILABLE
  THEN [health |-> health, result |-> "threw", data |-> NoData, from |-> None]
  ELSE LoadFrom(1, health, store, key, readFails)

loadData(health, store, key, readFails) == LoadFrom(1, health, store, key, readFails)

\* A clearData that leaves out the layers whose health is not AVAILABLE.
clearData_healthyOnly(health, store, key, removeFails) ==
  LET tried == {l \in Layers : health[l] = LayerStatus.AVAILABLE} IN
  [store  |-> [l \in Layers |->
                 IF l \in tried \ removeFails
                 THEN removeItem(store[l], key) ELSE store[l]],
   result |-> IF tried \ removeFails # {} THEN "true" ELSE "false"]

\* A clearData that reports success only when all three removals succeeded.
clearData_allMustSucceed(health, store, key, removeFails) ==
  [store  |-> [l \in Layers |->
                 IF l \in removeFails THEN store[l] ELSE removeItem(store[l], key)],
   result |-> IF removeFails = {} THEN "true" ELSE "false"]

\* clearData: removal on all three layers, whatever their health; removeFails
\* are those that throw.
clearData(health, store, key, removeFails) ==
  [store  |-> [l \in Layers |->
                 IF l \in removeFails THEN store[l] ELSE removeItem(store[l], key)],
   result |-> IF \E l \in Layers : l \notin removeFails THEN "true" ELSE "false"]

\* A probe that does not remove its throwaway key.
checkLayer_leavesKey(l, items, setFails, removeFails) ==
  IF l \in setFails
  THEN [items |-> items, status |-> LayerStatus.ERROR]
  ELSE [items  |-> setItem(items, TestKey[l], ProbeValue(l)),
        status |-> IF l \in removeFails THEN LayerStatus.ERROR
                   ELSE LayerStatus.AVAILABLE]

\* checkChromeStorage / checkLocalStorage / checkSessionStorage of layer l:
\* the probe's write throws (setFails), or its removal throws (removeFails).
checkLayer(l, items, setFails, removeFails) ==
  IF l \in setFails
  THEN [items |-> items, status |-> LayerStatus.ERROR]
  ELSE IF l \in removeFails
       THEN [items  |-> setItem(items, TestKey[l], ProbeValue(l)),
             status |-> LayerStatus.ERROR]
       ELSE [items  |-> removeItem(setItem(items, TestKey[l], ProbeValue(l)), TestKey[l]),
             status |-> LayerStatus.AVAILABLE]

\* A probe that never restores a layer it finds working.
checkLayerHealth_noRecovery(health, store, setFails, removeFails) ==
  [health |-> [l \in Layers |->
                 IF checkLayer(l, store[l], setFails, removeFails).status
                      = LayerStatus.ERROR
                 THEN LayerStatus.ERROR ELSE health[l]],
   store  |-> [l \in Layers |-> checkLayer(l, store[l], setFails, removeFails).items]]

\* A probe run that stops at the first layer whose probe throws.
checkLayerHealth_stopsAtFailure(health, store, setFails, removeFails) ==
  LET failing == {i \in DOMAIN LayerOrder : LayerOrder[i] \in setFails \cup removeFails}
      probed == {LayerOrder[i] : i \in {j \in DOMAIN LayerOrder :
                                          \A k \in failing : j <= k}}
  IN  [health |-> [l \in Layers |->
                     IF l \in probed
                     THEN checkLayer(l, store[l], setFails, removeFails).status
                     ELSE health[l]],
       store  |-> [l \in Layers |->
                     IF l \in probed
                     THEN checkLayer(l, store[l], setFails, removeFails).items
                     ELSE store[l]]]

checkLayerHealth(health, store, setFails, removeFails) ==
  [health |-> [l \in Layers |-> checkLayer(l, store[l], setFails, removeFails).status],
   store  |-> [l \in Layers |-> checkLayer(l, store[l], setFails, removeFails).items]]

retryVars == <<lastError, errorCount, errorInfo, call>>

NoLast ==
  [op |-> None, key |-> None, arg |-> NoData, result |-> None, data |-> NoData,
   healthBefore |-> [l \in Layers |-> LayerStatus.AVAILABLE], layer |-> None,
   readFailed |-> FALSE, held |-> {}, failed |-> {}, recovered |-> FALSE]

\* StorageLayerManager.saveData(key, data), called directly.
SaveData ==
  \E key \in Keys, data \in Values, writeFails \in SUBSET Layers :
    LET r == saveData(layerHealth, backend, key, data, writeFails) IN
    /\ layerHealth' = r.health
    /\ backend' = r.store
    /\ last' = [NoLast EXCEPT !.op = "saveData", !.key = key, !.arg = data,
                              !.result = r.result, !.healthBefore = layerHealth,
                              !.layer = r.wrote, !.recovered = last.recovered]
    /\ lastSaved' = IF r.result = "true" THEN setItem(lastSaved, key, data)
                    ELSE lastSaved
    /\ UNCHANGED <<retryVars, profileVars>>

\* StorageLayerManager.loadData(key), called directly.
LoadData ==
  \E key \in Keys, readFails \in SUBSET Layers :
    LET r == loadData(layerHealth, backend, key, readFails) IN
    /\ layerHealth' = r.health
    /\ last' = [NoLast EXCEPT !.op = "loadData", !.key = key, !.result = r.result,
                              !.data = r.data, !.healthBefore = layerHealth,
                              !.layer = r.from,
                              !.readFailed = (r.health # layerHealth)]
    /\ UNCHANGED <<backend, lastSaved>>
    /\ UNCHANGED <<retryVars, profileVars>>

\* StorageLayerManager.clearData(key), called directly.
ClearData ==
  \E key \in Keys, removeFails \in SUBSET Layers :
    LET r == clearData(layerHealth, backend, key, removeFails) IN
    /\ backend' = r.store
    /\ last' = [NoLast EXCEPT !.op = "clearData", !.key = key, !.result = r.result,
                              !.healthBefore = layerHealth,
                              !.held = {l \in Layers : Has(backend[l], key)},
                              !.failed = removeFails]
    /\ lastSaved' = removeItem(lastSaved, key)
    /\ UNCHANGED layerHealth
    /\ UNCHANGED <<retryVars, profileVars>>

\* One run of checkLayerHealth. A retryOperation call suspended meanwhile
\* notes whether the probe restored a layer (call.recovered, observation);
\* last.recovered says that this probe restored the primary layer, and the
\* saves that follow it keep the mark.
ProbeStep(setFails, removeFails) ==
  /\ LET r == checkLayerHealth(layerHealth, backend, setFails, removeFails) IN
     /\ layerHealth' = r.health
     /\ backend' = r.store
     /\ call' = IF /\ call.pc = "delay"
                   /\ \E l \in Layers : /\ layerHealth[l] # LayerStatus.AVAILABLE
                                        /\ r.health[l] = LayerStatus.AVAILABLE
                THEN [call EXCEPT !.recovered = TRUE] ELSE call
  /\ last' = [NoLast EXCEPT
                !.op = "checkLayerHealth", !.healthBefore = layerHealth,
                !.failed = setFails \cup removeFails,
                !.recovered =
                  /\ layerHealth[StorageLayers.PRIMARY] = LayerStatus.ERROR
                  /\ StorageLayers.PRIMARY \notin setFails \cup removeFails]
  /\ UNCHANGED <<lastSaved, lastError, errorCount, errorInfo>>
  /\ UNCHANGED profileVars

\* StorageLayerManager.checkLayerHealth() (init() is the same call).
CheckLayerHealth ==
  \E setFails \in SUBSET Layers, removeFails \in SUBSET Layers :
    /\ setFails \cap removeFails = {}
    /\ ProbeStep(setFails, removeFails)

\* checkLayerHealth() run while a retried save is in flight; here a probe
\* fails at its write, so that no throwaway key is left behind.
CheckLayerHealthBetweenAttempts ==
  \E setFails \in SUBSET Layers : ProbeStep(setFails, {})

\* The error saveData throws when no layer took the write; n is the
\* invocation that threw it.
AllLayersFailed(n) ==
  [id |-> n, name |-> "Error",
   message |-> Message(<<"All", "storage", "layers", "failed">>)]

\* One invocation of the operation () => StorageLayerManager.saveData(key, data)
\* inside the retryOperation call c.
RetrySaveAttempt(c, writeFails) ==
  LET r == saveData(layerHealth, backend, c.key, c.arg, writeFails)
      res == IF r.result = "true" THEN Returned("true", NoData)
             ELSE Raised(AllLayersFailed(c.opCalls + 1))
  IN  /\ layerHealth' = r.health
      /\ backend' = r.store
      /\ call' = retryOperation(c, res)
      /\ ErrorHandlerAfter(c, res)
      /\ UNCHANGED <<last, lastSaved>>
      /\ UNCHANGED profileVars

\* The record the retried save writes.
RetriedRecord == [id |-> "v2", tag |-> "t"]

\* retryOperation(() => StorageLayerManager.saveData(key, data), 'storage-save')
RetrySaveCall ==
  /\ call.pc = "idle"
  /\ CountAllowsCall
  /\ \E key \in Keys, writeFails \in SUBSET Layers :
       RetrySaveAttempt(
         [NewCall("saveData", key, RetriedRecord, "storage-save") EXCEPT
            !.allDown = (\A l \in Layers : layerHealth[l] = LayerStatus.ERROR)],
         writeFails)

\* The setTimeout of a suspended save fires: the whole saveData runs again.
RetrySaveWake ==
  /\ call.pc = "delay"
  /\ call.kind = "saveData"
  /\ \E writeFails \in SUBSET Layers :
       RetrySaveAttempt([call EXCEPT !.attempt = @ + 1], writeFails)

-----------------------------------------------------------------------------
(* src/profileStorage.js (ProfileStorage) over src/unnamed/part_003        *)
(* (StorageManager), which wraps chrome.storage.local in retryOperation.   *)
(* One updateProfile is in flight at a time; clearProfile and a page       *)
(* reload may come at any moment. upd.pc is where ProfileStorage stands:   *)
(*   "idle"    nothing in flight                                           *)
(*   "loading" the constructor's loadFromStorage awaits loadProfile        *)
(*   "saving"  updateProfile awaits saveProfile                            *)
(*   "done"    the call in flight has settled, upd.result is its value     *)

Null == "null"
Empty == ""
Texts == {"A", "B"}

requiredFields == {"name", "headline", "currentRole", "company"}
ProfileKeys == requiredFields \cup {"lastUpdated"}

STORAGE_KEYS == [PROFILE |-> "linkedInProfile", VERSION |-> "1.0"]

\* new Date().toISOString()
Timestamp == "timestamp"

\* The record the constructor and clearProfile assign to this.profileData.
EmptyProfile == [k \in ProfileKeys |-> Null]

\* !value, for the value of a field
Missing(value) == value \in {Null, Empty, Undefined}

\* A validation for which an empty string is a present field.
validateProfile_emptyCounts(data) ==
  \A field \in requiredFields : data[field] \notin {Null, Undefined}

\* validateProfile: the value it assigns to this.isValid and returns.
validateProfile(data) ==
  \A field \in requiredFields : ~Missing(data[field])

\* An update that erases the fields newData does not mention.
mergeFields_overwrite(data, newData) ==
  [key \in DOMAIN data |->
     IF key = "lastUpdated" THEN Timestamp
     ELSE IF key \in DOMAIN newData /\ newData[key] # Undefined
          THEN newData[key] ELSE Null]

\* An update that assigns every key newData holds, undefined values too.
mergeFields_undefinedErases(data, newData) ==
  [key \in DOMAIN data |->
     IF key = "lastUpdated" THEN Timestamp
     ELSE IF key \in DOMAIN newData THEN newData[key] ELSE data[key]]

\* updateProfile's assignments to this.profileData: the fields newData
\* provides, then the lastUpdated stamp.
mergeFields(data, newData) ==
  [key \in DOMAIN data |->
     IF key = "lastUpdated" THEN Timestamp
     ELSE IF key \in DOMAIN newData /\ newData[key] # Undefined
          THEN newData[key] ELSE data[key]]

\* A dataToStore in which the fields of the given object win over the stamps.
dataToStore_callerWins(data) ==
  [key \in DOMAIN data \cup {"lastUpdated", "version"} |->
     IF key \in DOMAIN data THEN data[key]
     ELSE IF key = "lastUpdated" THEN Timestamp
     ELSE STORAGE_KEYS.VERSION]

\* saveProfile's dataToStore.
dataToStore(data) ==
  [key \in DOMAIN data \cup {"lastUpdated", "version"} |->
     IF key = "lastUpdated" THEN Timestamp
     ELSE IF key = "version" THEN STORAGE_KEYS.VERSION
     ELSE data[key]]

\* What chrome.storage.local holds under STORAGE_KEYS.PROFILE.
HasStoredProfile == Has(backend[StorageLayers.PRIMARY], STORAGE_KEYS.PROFILE)
storedProfile == backend[StorageLayers.PRIMARY][STORAGE_KEYS.PROFILE]

\* The arguments the profile detector passes to updateProfile: a name, a
\* headline, or a position (currentRole and company), each text possibly
\* undefined or empty.
UpdValues == {Undefined, Empty} \cup Texts
PositionValues == {Undefined, Empty, "A"}
NewDatas ==
  {[name |-> v] : v \in UpdValues}
    \cup {[headline |-> v] : v \in UpdValues}
    \cup {[currentRole |-> r, company |-> c] : r \in PositionValues, c \in PositionValues}

\* The failures of a chrome.storage.local call at the n-th invocation.
ChromeErrors(n) ==
  {[id |-> n, name |-> "Error", message |-> Message(<<"failed">>)],
   [id |-> n, name |-> "QuotaExceededError", message |-> NoMessage]}

\* The outcomes of one invocation of saveProfile's operation.
SetOutcomes(c) ==
  {Returned("true", NoData)} \cup {Raised(e) : e \in ChromeErrors(c.opCalls + 1)}

UnsetFields == [field \in requiredFields |-> None]

\* What loadProfile returned to loadFromStorage when it found no record.
NullResult == [null |-> TRUE]

IdleUpd ==
  [pc |-> "idle", source |-> None, result |-> None,
   detached |-> FALSE, obj |-> EmptyProfile, loaded |-> NoData]

\* The three extractions the profile detector starts together, each ending
\* in one updateProfile call.
Extractors == {"name", "headline", "position"}

\* Nothing in flight for an extractor; order and wroteAfter observe, for a
\* call in flight, how many calls of the round started before it and which
\* of them had saved when its own save succeeded.
IdleFlight == [upd |-> IdleUpd, call |-> IdleCall, order |-> 0, wroteAfter |-> {}]
IdleFlights == [e \in Extractors |-> IdleFlight]

\* An updateProfile that reports true whatever became of the save.
AfterSave_swallows(c, u) ==
  IF c.pc = "done"
  THEN [u EXCEPT !.pc = "done", !.result = "true"]
  ELSE [u EXCEPT !.pc = "saving"]

\* updateProfile after `await StorageManager.saveProfile(...)` at call state c.
AfterSave(c, u) ==
  IF c.pc = "done"
  THEN [u EXCEPT !.pc = "done",
                 !.result = IF c.outcome = "returned" THEN "true" ELSE "false"]
  ELSE [u EXCEPT !.pc = "saving"]

\* A saveProfile whose rejected write has stored the record all the same.
SaveProfileAttempt_writesAnyway(c, data, res, u) ==
  /\ call' = retryOperation(c, res)
  /\ ErrorHandlerAfter(c, res)
  /\ backend' = [backend EXCEPT ![StorageLayers.PRIMARY] =
                   setItem(@, STORAGE_KEYS.PROFILE, dataToStore(data))]
  /\ upd' = AfterSave(retryOperation(c, res), u)

\* One invocation of saveProfile's operation inside the retryOperation call
\* c: data is the object saveProfile was given, as it stands now.
SaveProfileAttempt(c, data, res, u) ==
  /\ call' = retryOperation(c, res)
  /\ ErrorHandlerAfter(c, res)
  /\ backend' =
       IF res.ok
       THEN [backend EXCEPT ![StorageLayers.PRIMARY] =
               setItem(@, STORAGE_KEYS.PROFILE, dataToStore(data))]
       ELSE backend
  /\ upd' = AfterSave(retryOperation(c, res), u)

\* updateProfile(newData) up to its first suspension: the merge, the stamp,
\* the validation and, for a valid record, the first attempt of saveProfile.
\* u is ProfileStorage's call record so far, prior the retryOperation call
\* that stays on record when none starts.
UpdateProfileStep(newData, res, u, prior) ==
  LET merged == mergeFields(profileData, newData)
      valid  == validateProfile(merged)
      c == NewCall("saveProfile", STORAGE_KEYS.PROFILE, NoData, "storage-save-profile")
  IN  /\ profileData' = merged
      /\ isValid' = valid
      /\ lastSet' = [field \in requiredFields |->
                       IF field \in DOMAIN newData /\ newData[field] # Undefined
                       THEN newData[field] ELSE lastSet[field]]
      /\ IF valid
         THEN SaveProfileAttempt(c, merged, res, u)
         ELSE /\ call' = prior
              /\ upd' = [u EXCEPT !.pc = "done", !.result = "true"]
              /\ UNCHANGED <<lastError, errorCount, errorInfo, backend>>

\* ProfileStorage.updateProfile(newData), called by the profile detector.
UpdateProfile ==
  /\ upd.pc = "idle"
  /\ call.pc = "idle"
  /\ \E newData \in NewDatas :
       \E res \in SetOutcomes(IdleCall) :
         UpdateProfileStep(newData, res, [IdleUpd EXCEPT !.source = "caller"], call)
  /\ UNCHANGED <<layerHealth, last, lastSaved, flights>>

\* The setTimeout of a suspended saveProfile fires: its operation spreads the
\* object it was given anew (the live this.profileData, unless clearProfile
\* has replaced that object meanwhile).
SaveProfileWake ==
  /\ call.pc = "delay"
  /\ call.kind = "saveProfile"
  /\ LET c == [call EXCEPT !.attempt = @ + 1]
         data == IF upd.detached THEN upd.obj ELSE profileData
     IN  \E res \in SetOutcomes(c) : SaveProfileAttempt(c, data, res, upd)
  /\ UNCHANGED <<profileData, isValid, lastSet, layerHealth, last, lastSaved, flights>>

\* The caller has taken the value of the settled updateProfile.
UpdateSettled ==
  /\ upd.pc = "done"
  /\ upd' = IdleUpd
  /\ call' = IdleCall
  /\ UNCHANGED <<lastError, errorCount, errorInfo, profileData, isValid, lastSet, flights>>
  /\ UNCHANGED tierVars

\* getProfile(): a copy of the record with the cached flag.
getProfile(data, valid) ==
  [key \in DOMAIN data \cup {"isValid"} |->
     IF key = "isValid" THEN (IF valid THEN "true" ELSE "false")
     ELSE data[key]]

\* A clearProfile that keeps the stamp of the last update.
ClearProfile_keepsStamp ==
  /\ profileData' = [EmptyProfile EXCEPT !.lastUpdated = profileData.lastUpdated]
  /\ isValid' = FALSE
  /\ lastSet' = UnsetFields
  /\ upd' = IF upd.pc = "saving" /\ ~upd.detached
            THEN [upd EXCEPT !.detached = TRUE, !.obj = profileData]
            ELSE upd
  /\ UNCHANGED retryVars
  /\ UNCHANGED <<tierVars, flights>>

\* A clearProfile that leaves the cached flag as it was.
ClearProfile_keepsFlag ==
  /\ profileData' = EmptyProfile
  /\ isValid' = isValid
  /\ lastSet' = UnsetFields
  /\ upd' = IF upd.pc = "saving" /\ ~upd.detached
            THEN [upd EXCEPT !.detached = TRUE, !.obj = profileData]
            ELSE upd
  /\ UNCHANGED retryVars
  /\ UNCHANGED <<tierVars, flights>>

\* ProfileStorage.clearProfile()
ClearProfile ==
  /\ profileData' = EmptyProfile
  /\ isValid' = FALSE
  /\ lastSet' = UnsetFields
  /\ upd' = IF upd.pc = "saving" /\ ~upd.detached
            THEN [upd EXCEPT !.detached = TRUE, !.obj = profileData]
            ELSE upd
  /\ UNCHANGED retryVars
  /\ UNCHANGED <<tierVars, flights>>

\* What `new ProfileStorage()` leaves in flight: loadFromStorage suspended in
\* the first attempt of loadProfile.
LoadingUpd == [IdleUpd EXCEPT !.pc = "loading", !.source = "constructor"]
PendingLoad ==
  [NewCall("loadProfile", STORAGE_KEYS.PROFILE, NoData, "storage-load-profile")
     EXCEPT !.pc = "pending"]

\* The state after every script of the page has run.
Constructed ==
  /\ profileData = EmptyProfile
  /\ isValid = FALSE
  /\ lastSet = UnsetFields
  /\ upd = LoadingUpd
  /\ flights = IdleFlights
  /\ call = PendingLoad
  /\ lastError = UndefinedError
  /\ errorCount = UndefinedCount
  /\ errorInfo = NoInfo

\* The page is loaded again: every script starts afresh over the storage
\* the page left.
Reload ==
  /\ profileData' = EmptyProfile
  /\ isValid' = FALSE
  /\ lastSet' = UnsetFields
  /\ upd' = LoadingUpd
  /\ call' = PendingLoad
  /\ lastError' = UndefinedError
  /\ errorCount' = UndefinedCount
  /\ errorInfo' = NoInfo
  /\ UNCHANGED <<tierVars, flights>>

\* A loadProfile for which a missing record is a failure.
loadProfileOperation_absentIsError(items) ==
  IF Has(items, STORAGE_KEYS.PROFILE)
  THEN Returned("profile", items[STORAGE_KEYS.PROFILE])
  ELSE Raised([id |-> 0, name |-> "Error", message |-> Message(<<"failed">>)])

\* loadProfile's operation once chrome.storage.local.get has resolved over
\* the items chrome.storage.local holds.
loadProfileOperation(items) ==
  IF Has(items, STORAGE_KEYS.PROFILE)
  THEN Returned("profile", items[STORAGE_KEYS.PROFILE])
  ELSE Returned("null", NoData)

\* One invocation of loadProfile's operation, and loadFromStorage after it
\* when loadProfile settles: a stored profile goes through updateProfile.
LoadProfileAttempt ==
  /\ call.kind = "loadProfile"
  /\ call.pc \in {"pending", "delay"}
  /\ LET c == IF call.pc = "pending" THEN call ELSE [call EXCEPT !.attempt = @ + 1]
     IN  \E res \in {loadProfileOperation(backend[StorageLayers.PRIMARY])}
                      \cup {Raised(e) : e \in ChromeErrors(c.opCalls + 1)} :
           LET settled == retryOperation(c, res) IN
           IF res.ok /\ res.value = "profile"
           THEN \E set \in SetOutcomes(IdleCall) :
                  UpdateProfileStep(
                    [field \in requiredFields |-> res.data[field]],
                    set, [upd EXCEPT !.loaded = res.data], settled)
           ELSE /\ call' = settled
                /\ ErrorHandlerAfter(c, res)
                /\ upd' = IF settled.pc = "done"
                          THEN [upd EXCEPT !.pc = "done",
                                           !.loaded = IF res.ok THEN NullResult ELSE @]
                          ELSE upd
                /\ UNCHANGED <<profileData, isValid, lastSet, backend>>
  /\ UNCHANGED <<layerHealth, last, lastSaved, flights>>

-----------------------------------------------------------------------------
(* The profile detector on the user's own profile page: updateProfileState *)
(* starts extractProfileName, extractProfileHeadline and                   *)
(* extractCurrentPosition together and awaits them all. Each runs up to    *)
(* its updateProfile call, which runs up to the first                      *)
(* chrome.storage.local.set of its saveProfile, so up to three             *)
(* updateProfile calls, each with its own retryOperation call, are in      *)
(* flight at once over the one this.profileData. chrome.storage.local      *)
(* applies the set calls in the order they were issued. The user stays on  *)
(* LinkedIn: no clearProfile intervenes.                                   *)

\* What each extractor passes to updateProfile: the trimmed text of the
\* element it found, which may be empty.
ExtractedDatas ==
  [e \in Extractors |->
     IF e = "name" THEN {[name |-> v] : v \in {Empty, "A", "B"}}
     ELSE IF e = "headline" THEN {[headline |-> v] : v \in {Empty, "A", "B"}}
     ELSE {[currentRole |-> "A", company |-> "A"]}]

\* A saveProfile whose retries store the record as it was when updateProfile
\* passed it.
SavedObject_snapshot(f) == f.upd.obj

\* The object the operation of saveProfile spreads at a retry of the flight
\* f: the object updateProfile passed, this.profileData itself, as it
\* stands when the attempt runs.
SavedObject(f) == profileData

\* One invocation of saveProfile's operation for the extractor e, inside its
\* retryOperation call c, spreading data; u is its updateProfile so far.
FlightAttempt(e, c, data, res, u, order) ==
  LET settled == retryOperation(c, res)
      saved == {x \in Extractors \ {e} : flights[x].call.outcome = "returned"}
  IN  /\ ErrorHandlerAfter(c, res)
      /\ backend' =
           IF res.ok
           THEN [backend EXCEPT ![StorageLayers.PRIMARY] =
                   setItem(@, STORAGE_KEYS.PROFILE, dataToStore(data))]
           ELSE backend
      /\ flights' = [flights EXCEPT ![e] =
                       [upd |-> AfterSave(settled, u), call |-> settled,
                        order |-> order,
                        wroteAfter |-> IF res.ok THEN saved ELSE {}]]

\* The extractor e has found its element and calls updateProfile, which
\* runs up to its first suspension: the merge, the stamp, the validation
\* and, for a valid record, the first attempt of saveProfile.
ExtractAndUpdate(e) ==
  /\ flights[e].upd.pc = "idle"
  /\ \E newData \in ExtractedDatas[e] :
       \E res \in SetOutcomes(IdleCall) :
         LET merged == mergeFields(profileData, newData)
             valid  == validateProfile(merged)
             c == NewCall("saveProfile", STORAGE_KEYS.PROFILE, NoData,
                          "storage-save-profile")
             u == [IdleUpd EXCEPT !.source = "caller", !.obj = merged]
             order == Cardinality({x \in Extractors : flights[x].upd.pc # "idle"})
         IN  /\ profileData' = merged
             /\ isValid' = valid
             /\ lastSet' = [field \in requiredFields |->
                              IF field \in DOMAIN newData /\ newData[field] # Undefined
                              THEN newData[field] ELSE lastSet[field]]
             /\ IF valid
                THEN FlightAttempt(e, c, merged, res, u, order)
                ELSE /\ flights' = [flights EXCEPT ![e] =
                                      [IdleFlight EXCEPT
                                         !.upd = [u EXCEPT !.pc = "done",
                                                           !.result = "true"],
                                         !.order = order]]
                     /\ UNCHANGED <<lastError, errorCount, errorInfo, backend>>
  /\ UNCHANGED <<call, upd, layerHealth, last, lastSaved>>

\* The setTimeout of the suspended saveProfile of extractor e fires.
SaveProfileRetry(e) ==
  /\ flights[e].call.pc = "delay"
  /\ LET f == flights[e]
         c == [f.call EXCEPT !.attempt = @ + 1]
     IN  \E res \in SetOutcomes(c) :
           FlightAttempt(e, c, SavedObject(f), res, f.upd, f.order)
  /\ UNCHANGED <<profileData, isValid, lastSet, call, upd, layerHealth, last, lastSaved>>

\* Every extraction started has settled: Promise.all resolves and
\* updateProfileState returns.
ExtractionsSettled ==
  /\ \A e \in Extractors : flights[e].upd.pc \in {"idle", "done"}
  /\ \E e \in Extractors : flights[e].upd.pc = "done"
  /\ flights' = IdleFlights
  /\ UNCHANGED <<profileData, isValid, lastSet, call, upd>>
  /\ UNCHANGED <<lastError, errorCount, errorInfo>>
  /\ UNCHANGED tierVars

-----------------------------------------------------------------------------
(* StorageManager.hasValidProfile over the record chrome.storage.local     *)
(* holds when the page starts, whichever build of the extension wrote it.  *)

Versions == {STORAGE_KEYS.VERSION, "0.9"}

\* The records chrome.storage.local may hold under STORAGE_KEYS.PROFILE.
StoredRecords ==
  {[key \in ProfileKeys \cup {"version"} |->
      IF key = "version" THEN v
      ELSE IF key = "lastUpdated" THEN t
      ELSE fields[key]] :
     v \in Versions, t \in {Timestamp, Undefined},
     fields \in [requiredFields -> PositionValues]}

\* The values of JavaScript's `true` and `false`.
JsTrue == "true"
JsFalse == "false"

\* !value, for a value of any kind
Falsy(value) == value = JsFalse \/ Missing(value)

\* a && b && ... : the first falsy operand, or else the last one.
AndChain(operands) ==
  LET falsy == {i \in DOMAIN operands : Falsy(operands[i])} IN
  IF falsy = {} THEN operands[Len(operands)]
  ELSE operands[CHOOSE i \in falsy : \A j \in falsy : i <= j]

\* A hasValidProfile that does not look at the version.
hasValidProfile_anyVersion(loaded) ==
  IF loaded.outcome = "threw" \/ loaded.value = "null" THEN JsFalse
  ELSE LET record == loaded.data IN
       AndChain(<<record.name, record.headline,
                  record.currentRole, record.company,
                  record.lastUpdated>>)

\* A hasValidProfile whose operation lets the error of loadProfile through.
hasValidProfile_rethrows(loaded) ==
  IF loaded.outcome = "threw" THEN "threw"
  ELSE IF loaded.value = "null" THEN JsFalse
  ELSE LET record == loaded.data IN
       AndChain(<<IF record.version = STORAGE_KEYS.VERSION
                  THEN JsTrue ELSE JsFalse,
                  record.name, record.headline,
                  record.currentRole, record.company,
                  record.lastUpdated>>)

\* What hasValidProfile returns once its loadProfile call has settled as
\* loaded: its operation catches every error, so retryOperation around it
\* returns the operation's first result.
hasValidProfile(loaded) ==
  IF loaded.outcome = "threw" \/ loaded.value = "null" THEN JsFalse
  ELSE LET record == loaded.data IN
       AndChain(<<IF record.version = STORAGE_KEYS.VERSION
                  THEN JsTrue ELSE JsFalse,
                  record.name, record.headline,
                  record.currentRole, record.company,
                  record.lastUpdated>>)

\* StorageManager.hasValidProfile() is called: its loadProfile is suspended
\* in the first chrome.storage.local.get.
HasValidProfile ==
  /\ call.pc \in {"idle", "done"}
  /\ call' = [NewCall("hasValidProfile", STORAGE_KEYS.PROFILE, NoData,
                      "storage-load-profile") EXCEPT !.pc = "pending"]
  /\ UNCHANGED <<lastError, errorCount, errorInfo>>
  /\ UNCHANGED tierVars
  /\ UNCHANGED profileVars

\* One invocation of loadProfile's operation inside hasValidProfile, and
\* the rest of hasValidProfile when loadProfile settles.
ValidateAttempt ==
  /\ call.kind = "hasValidProfile"
  /\ call.pc \in {"pending", "delay"}
  /\ LET c == IF call.pc = "pending" THEN call ELSE [call EXCEPT !.attempt = @ + 1]
     IN  \E res \in {loadProfileOperation(backend[StorageLayers.PRIMARY])}
                      \cup {Raised(e) : e \in ChromeErrors(c.opCalls + 1)} :
           LET settled == retryOperation(c, res) IN
           /\ call' = settled
           /\ ErrorHandlerAfter(c, res)
           /\ last' = IF settled.pc = "done"
                      THEN [NoLast EXCEPT !.op = "hasValidProfile",
                                          !.key = STORAGE_KEYS.PROFILE,
                                          !.result = hasValidProfile(settled)]
                      ELSE last
  /\ UNCHANGED <<layerHealth, backend, lastSaved>>
  /\ UNCHANGED profileVars

InitRetry ==
  /\ lastError = UndefinedError
  /\ errorCount = UndefinedCount
  /\ errorInfo = NoInfo
  /\ call = IdleCall

InitTier ==
  /\ layerHealth = [l \in Layers |-> LayerStatus.AVAILABLE]
  /\ backend = [l \in Layers |-> <<>>]
  /\ last = NoLast
  /\ lastSaved = <<>>

InitProfile ==
  /\ profileData = EmptyProfile
  /\ isValid = FALSE
  /\ upd = IdleUpd
  /\ lastSet = UnsetFields
  /\ flights = IdleFlights

Init == InitRetry /\ InitTier /\ InitProfile

InitStore == InitTier /\ Constructed

NextRetry == RetryCall \/ RetryWake \/ RetrySettled \/ ErrorHandlerInit \/ Reset

SpecRetry == Init /\ [][NextRetry]_vars

\* The outcomes of one invocation of an operation whose error messages have
\* at most one word: each word classifyError and shouldRetryError look for
\* on its own, a message with none of them, and no message at all.
ShortOutcomes(c) ==
  {res \in OpOutcomes(c) :
     (~res.ok /\ res.error.message.present) => Len(res.error.message.words) <= 1}

\* retryOperation(operation, context) is called with such an operation.
RetryCallShort ==
  /\ call.pc = "idle"
  /\ CountAllowsCall
  /\ \E context \in Contexts :
       LET c == NewCall("op", None, NoData, context) IN
       \E res \in ShortOutcomes(c) :
         /\ call' = retryOperation(c, res)
         /\ ErrorHandlerAfter(c, res)
  /\ UNCHANGED <<tierVars, profileVars>>

\* The setTimeout of a suspended call fires and the operation settles.
RetryWakeShort ==
  /\ call.pc = "delay"
  /\ call.kind = "op"
  /\ LET c == [call EXCEPT !.attempt = @ + 1] IN
     \E res \in ShortOutcomes(c) :
       /\ call' = retryOperation(c, res)
       /\ ErrorHandlerAfter(c, res)
  /\ UNCHANGED <<tierVars, profileVars>>

NextRetryFair ==
  RetryCallShort \/ RetryWakeShort \/ RetrySettled \/ ErrorHandlerInit \/ Reset

\* The timer of a suspended call fires and the operation it then invokes
\* settles.
SpecRetryFair == Init /\ [][NextRetryFair]_vars /\ WF_vars(RetryWakeShort)

Next == SaveData \/ LoadData \/ ClearData \/ CheckLayerHealth

Spec == Init /\ [][Next]_vars

NextRetryTier ==
  RetrySaveCall \/ RetrySaveWake \/ CheckLayerHealthBetweenAttempts
    \/ RetrySettled \/ ErrorHandlerInit \/ Reset

SpecRetryTier == Init /\ [][NextRetryTier]_vars

NextProfile ==
  UpdateProfile \/ SaveProfileWake \/ UpdateSettled \/ ClearProfile
    \/ LoadProfileAttempt \/ Reload

SpecProfile == InitStore /\ [][NextProfile]_vars

NextOverlap ==
  \/ \E e \in Extractors : ExtractAndUpdate(e)
  \/ \E e \in Extractors : SaveProfileRetry(e)
  \/ ExtractionsSettled

SpecOverlap == Init /\ [][NextOverlap]_vars

\* chrome.storage.local holds no record or any one of StoredRecords.
InitValidate ==
  /\ InitRetry
  /\ InitProfile
  /\ layerHealth = [l \in Layers |-> LayerStatus.AVAILABLE]
  /\ last = NoLast
  /\ lastSaved = <<>>
  /\ \E items \in {<<>>} \cup {setItem(<<>>, STORAGE_KEYS.PROFILE, r) : r \in StoredRecords} :
       backend = [l \in Layers |-> IF l = StorageLayers.PRIMARY THEN items ELSE <<>>]

NextValidate == HasValidProfile \/ ValidateAttempt

SpecValidate == InitValidate /\ [][NextValidate]_vars

-----------------------------------------------------------------------------
(* Properties of retryOperation and ErrorHandler, checked under SpecRetry *)

TerminalKinds == {StorageErrors.QUOTA_EXCEEDED, StorageErrors.INVALID_DATA}
RetryableKinds ==
  {StorageErrors.NETWORK_ERROR, StorageErrors.TIMEOUT_ERROR, StorageErrors.API_ERROR}

\* C4: an operation that fails twice with retryable errors and then succeeds
\* makes retryOperation return the success value after exactly 3 invocations
\* and exactly 2 delays, 1000 ms then 2000 ms, both before the third attempt.
TwoFailuresThenSuccess ==
  /\ (call.kind = "op" /\ call.pc = "delay" /\ call.failures = 2)
       => (call.opCalls = 2 /\ call.delays = <<1000, 2000>>)
  /\ (call.kind = "op" /\ call.pc = "done" /\ call.failures = 2
        /\ call.outcome = "returned")
       => /\ call.value = "success"
          /\ call.opCalls = 3
          /\ call.delays = <<1000, 2000>>

TwoFailuresThenSuccessReached ==
  /\ call.kind = "op" /\ call.pc = "done"
  /\ call.failures = 2 /\ call.outcome = "returned"
  /\ classifyError(call.raised) \in RetryableKinds

\* C5: an error classified QUOTA_EXCEEDED or INVALID_DATA is never retried:
\* the invocation that raised it is the last one, no delay follows it, and the
\* call fails with that very error; raised at the first attempt, the operation
\* ran exactly once and there was no delay at all.
TerminalNeverRetried ==
  (call.kind = "op" /\ call.raised # NoError
     /\ classifyError(call.raised) \in TerminalKinds)
    => /\ call.pc = "done"
       /\ call.outcome = "threw"
       /\ call.thrown = call.raised
       /\ call.opCalls = call.failures
       /\ Len(call.delays) = call.failures - 1
       /\ call.attempt = 1 => (call.opCalls = 1 /\ call.delays = <<>>)

TerminalNeverRetriedReached ==
  /\ call.kind = "op" /\ call.pc = "done" /\ call.outcome = "threw"
  /\ classifyError(call.raised) = StorageErrors.QUOTA_EXCEEDED
  /\ call.opCalls = 1 /\ call.delays = <<>>

\* C6: an error classified NETWORK_ERROR, TIMEOUT_ERROR or API_ERROR is
\* retryable: handleError reports shouldRetry for it, and after such a failure
\* at an attempt below maxRetries the call is suspended and will invoke the
\* operation again.
RetryableAreRetried ==
  /\ (errorInfo # NoInfo /\ errorInfo.type \in RetryableKinds)
       => errorInfo.shouldRetry
  /\ (call.kind = "op" /\ call.raised # NoError
        /\ call.failures = call.opCalls
        /\ classifyError(call.raised) \in RetryableKinds
        /\ call.attempt < Config.maxRetries)
       => (call.pc = "delay" /\ ENABLED RetryWake)

RetryableAreRetriedReached ==
  /\ call.kind = "op" /\ call.pc = "delay" /\ call.attempt = 2
  /\ errorInfo.type = StorageErrors.TIMEOUT_ERROR
  /\ errorInfo.shouldRetry

\* C7: classifyError gives exactly one kind, by priority: the quota name wins
\* whatever the message; else 'timeout' in the message; else 'network'; else
\* 'invalid' or 'format'; else API_ERROR.
ClassificationPriority ==
  lastError.id > 0 =>
    LET e == lastError
        m == lastError.message
        t == errorInfo.type
        quota == e.name = "QuotaExceededError"
    IN  /\ t \in {StorageErrors[k] : k \in DOMAIN StorageErrors}
        /\ quota => t = StorageErrors.QUOTA_EXCEEDED
        /\ (~quota /\ includes(m, "timeout")) => t = StorageErrors.TIMEOUT_ERROR
        /\ (~quota /\ ~includes(m, "timeout") /\ includes(m, "network"))
             => t = StorageErrors.NETWORK_ERROR
        /\ (~quota /\ ~includes(m, "timeout") /\ ~includes(m, "network")
              /\ (includes(m, "invalid") \/ includes(m, "format")))
             => t = StorageErrors.INVALID_DATA
        /\ (~quota /\ ~includes(m, "timeout") /\ ~includes(m, "network")
              /\ ~includes(m, "invalid") /\ ~includes(m, "format"))
             => t = StorageErrors.API_ERROR

ClassificationPriorityReached ==
  /\ lastError.name = "QuotaExceededError"
  /\ includes(lastError.message, "timeout")
  /\ includes(lastError.message, "invalid")
  /\ errorInfo.type = StorageErrors.QUOTA_EXCEEDED

\* C8: a retryOperation call that does not return a success value throws the
\* very error the last invocation of the operation raised, unwrapped, both on a
\* non-retryable error and at maxRetries; it never settles with anything else.
OriginalErrorSurfaces ==
  (call.kind = "op" /\ call.pc = "done")
    => /\ call.outcome \in {"returned", "threw"}
       /\ call.outcome = "returned"
            => /\ call.value = "success"
               /\ call.thrown = NoError
               /\ call.failures = call.opCalls - 1
       /\ call.outcome = "threw"
            => /\ call.thrown \in Errors(call.opCalls)
               /\ call.thrown = call.raised
               /\ call.failures = call.opCalls

OriginalErrorSurfacesReached ==
  /\ call.kind = "op" /\ call.pc = "done" /\ call.outcome = "threw"
  /\ call.opCalls = Config.maxRetries
  /\ classifyError(call.thrown) \in RetryableKinds

-----------------------------------------------------------------------------
(* Properties of StorageLayerManager, checked under Spec *)

Healthy(health) == \A l \in Layers : health[l] = LayerStatus.AVAILABLE
AllDown(health) == \A l \in Layers : health[l] = LayerStatus.ERROR

\* C1: round-trip law: after saveData(k, v) returned true, a loadData(k) made
\* before any backend is cleared returns v in its defined fields. Stated here
\* for the loads that find every layer marked available and in which no read
\* throws.
RoundTripLaw ==
  (last.op = "loadData" /\ Has(lastSaved, last.key)
     /\ Healthy(last.healthBefore) /\ ~last.readFailed)
    => /\ last.result = "value"
       /\ last.data = Serialize(lastSaved[last.key])

\* C2 as stated: whenever the primary layer is marked ERROR before a save,
\* saveData returns true and the value is written to the secondary layer.
FallbackWheneverPrimaryDown ==
  (last.op = "saveData"
     /\ last.healthBefore[StorageLayers.PRIMARY] = LayerStatus.ERROR)
    => (last.result = "true" /\ last.layer = StorageLayers.SECONDARY)

\* C2, amended: when the primary layer is marked ERROR and the secondary is
\* marked AVAILABLE before a save, and the secondary's write does not throw,
\* saveData returns true having written the value to the secondary layer, and
\* a loadData issued next returns the value unless the secondary's read throws.
FallbackToSecondary ==
  (last.op = "saveData"
     /\ last.healthBefore[StorageLayers.PRIMARY] = LayerStatus.ERROR
     /\ last.healthBefore[StorageLayers.SECONDARY] = LayerStatus.AVAILABLE
     /\ layerHealth[StorageLayers.SECONDARY] = LayerStatus.AVAILABLE)
    => /\ last.result = "true"
       /\ last.layer = StorageLayers.SECONDARY
       /\ Has(backend[StorageLayers.SECONDARY], last.key)
       /\ backend[StorageLayers.SECONDARY][last.key] = JSONstringify(last.arg)
       /\ \A readFails \in SUBSET (Layers \ {StorageLayers.SECONDARY}) :
            LET r == loadData(layerHealth, backend, last.key, readFails)
            IN  r.result = "value" /\ r.data = Serialize(last.arg)

\* The fallback happened over a stale copy that the primary layer still holds.
FallbackToSecondaryReached ==
  /\ last.op = "saveData" /\ last.result = "true"
  /\ last.healthBefore[StorageLayers.PRIMARY] = LayerStatus.ERROR
  /\ last.layer = StorageLayers.SECONDARY
  /\ Has(backend[StorageLayers.PRIMARY], last.key)
  /\ backend[StorageLayers.PRIMARY][last.key] # Serialize(last.arg)

-----------------------------------------------------------------------------
(* Properties of the retried save, checked under SpecRetryTier *)

\* C3 as stated: a retry-wrapped save issued while all three layers are
\* marked ERROR fails after maxRetries attempts.
AllDownSaveAlwaysFails ==
  (call.kind = "saveData" /\ call.allDown /\ call.pc = "done")
    => (call.outcome = "threw" /\ call.opCalls = Config.maxRetries)

\* C3, amended: a retry-wrapped save issued while all three layers are marked
\* ERROR, during which no health probe restores a layer, fails: every attempt
\* raises 'All storage layers failed', the call gives up after maxRetries
\* attempts with the delays 1000 ms and 2000 ms between them (increasing,
\* below maxDelay), and throws the error of its last attempt.
AllDownSaveFails ==
  (call.kind = "saveData" /\ call.allDown /\ ~call.recovered)
    => /\ call.outcome # "returned"
       /\ call.raised = AllLayersFailed(call.opCalls)
       /\ classifyError(call.raised) = StorageErrors.API_ERROR
       /\ call.pc = "delay" => AllDown(layerHealth)
       /\ \A i \in 1..Len(call.delays) :
            /\ call.delays[i] <= Config.maxDelay
            /\ i > 1 => call.delays[i - 1] < call.delays[i]
       /\ call.pc = "done"
            => /\ call.outcome = "threw"
               /\ call.opCalls = Config.maxRetries
               /\ call.delays = <<1000, 2000>>
               /\ call.thrown = AllLayersFailed(Config.maxRetries)

AllDownSaveFailsReached ==
  /\ call.kind = "saveData" /\ call.allDown /\ ~call.recovered
  /\ call.pc = "done" /\ call.outcome = "threw"
  /\ call.opCalls = Config.maxRetries

-----------------------------------------------------------------------------
(* Properties of ProfileStorage over StorageManager, checked under         *)
(* SpecProfile                                                             *)

\* C9: isValid is true iff name, headline, currentRole and company are all
\* present and non-empty in the in-memory record, and false as soon as one of
\* them is missing or empty, after any sequence of updates and clears.
ValidIffAllFourPresent ==
  isValid <=>
    /\ profileData.name \notin {Null, Undefined, Empty}
    /\ profileData.headline \notin {Null, Undefined, Empty}
    /\ profileData.currentRole \notin {Null, Undefined, Empty}
    /\ profileData.company \notin {Null, Undefined, Empty}

ValidIffAllFourPresentReached ==
  /\ isValid
  /\ upd.pc = "done" /\ upd.source = "caller"
  /\ profileData.name = "B" /\ profileData.headline = "A"
  /\ profileData.currentRole = "A" /\ profileData.company = "A"

\* C10 as stated: once an updateProfile has completed, every field set by it
\* or by an earlier one, and not mentioned since, is in the record loadProfile
\* yields.
PersistedRecordMerges ==
  (upd.pc = "done" /\ upd.source = "caller" /\ upd.result = "true")
    => \A field \in requiredFields :
         lastSet[field] # None
           => (HasStoredProfile /\ storedProfile[field] = lastSet[field])

\* C10, amended: partial updates merge in the in-memory record: a field set by
\* an earlier updateProfile and not mentioned by later ones keeps its value
\* there until clearProfile. The persisted record is written only by an
\* updateProfile that leaves all four required fields non-empty; when such an
\* updateProfile returns true, loadProfile yields a record holding every
\* merged field, stamped with the schema version.
PartialUpdatesMerge ==
  /\ \A field \in requiredFields :
       lastSet[field] # None => profileData[field] = lastSet[field]
  /\ (upd.pc = "done" /\ upd.result = "true" /\ isValid)
       => /\ HasStoredProfile
          /\ storedProfile.version = STORAGE_KEYS.VERSION
          /\ \A field \in requiredFields :
               /\ lastSet[field] # None
               /\ storedProfile[field] = lastSet[field]
  /\ HasStoredProfile
       => \A field \in requiredFields :
            storedProfile[field] \notin {Null, Undefined, Empty}

PartialUpdatesMergeReached ==
  /\ upd.pc = "done" /\ upd.source = "caller" /\ upd.result = "true"
  /\ call.kind = "saveProfile" /\ call.opCalls = 2
  /\ isValid
  /\ HasStoredProfile
  /\ storedProfile.name = "A" /\ storedProfile.headline = "B"
  /\ lastSet.name = "A" /\ lastSet.headline = "B"

\* C11 as stated: updateProfile returns true only if the underlying
\* persistent save succeeded.
TrueOnlyIfSaved ==
  (upd.pc = "done" /\ upd.source = "caller" /\ upd.result = "true")
    => (call.kind = "saveProfile" /\ call.outcome = "returned")

\* C11, amended: updateProfile never throws, it settles with true or false.
\* It returns false exactly when it called saveProfile and saveProfile threw,
\* on a terminal error or after maxRetries attempts; it returns true when
\* saveProfile returned, then the record is in chrome.storage.local, and also
\* when the merged record was invalid and no save was attempted.
SaveIsSoftReported ==
  (upd.pc = "done" /\ upd.source = "caller")
    => /\ upd.result \in {"true", "false"}
       /\ upd.result = "false"
            <=> (call.kind = "saveProfile" /\ call.outcome = "threw")
       /\ upd.result = "false"
            => \/ call.opCalls = Config.maxRetries
               \/ classifyError(call.thrown) \in TerminalKinds
       /\ upd.result = "true"
            => \/ call.kind = "saveProfile" /\ call.outcome = "returned"
                    /\ HasStoredProfile
               \/ call = IdleCall

SaveIsSoftReportedReached ==
  /\ upd.pc = "done" /\ upd.source = "caller" /\ upd.result = "false"
  /\ call.kind = "saveProfile" /\ call.outcome = "threw"
  /\ call.opCalls = Config.maxRetries
  /\ ~HasStoredProfile

\* C12 as stated: loadProfile surfaces a failure to its caller only after the
\* read has failed on every one of the maxRetries attempts.
LoadFailsOnlyAfterMaxRetries ==
  (call.kind = "loadProfile" /\ call.outcome = "threw")
    => call.opCalls = Config.maxRetries

\* C12, amended: loadProfile returns null (no error) when no record is stored
\* and the stored record otherwise; it throws only the error
\* chrome.storage.local raised at its last attempt, and only when that error
\* is terminal or the read has failed at each of maxRetries attempts; while
\* attempts remain after a retryable failure it is suspended, not failed.
LoadReturnsRecordOrAbsent ==
  /\ (call.kind = "loadProfile" /\ call.outcome = "returned")
       => /\ call.value = "null"
          /\ upd.loaded = NullResult
          /\ ~HasStoredProfile
  /\ (upd.source = "constructor" /\ upd.loaded \notin {NoData, NullResult})
       => /\ HasStoredProfile
          /\ upd.loaded = storedProfile
  /\ (call.kind = "loadProfile" /\ call.outcome = "threw")
       => /\ call.thrown \in ChromeErrors(call.opCalls)
          /\ call.thrown = call.raised
          /\ call.failures = call.opCalls
          /\ upd.loaded = NoData
          /\ \/ call.opCalls = Config.maxRetries
             \/ classifyError(call.thrown) \in TerminalKinds
  /\ (call.kind = "loadProfile" /\ call.pc = "delay")
       => /\ call.opCalls < Config.maxRetries
          /\ classifyError(call.raised) \in RetryableKinds

LoadReturnsRecordOrAbsentReached ==
  /\ call.kind = "loadProfile" /\ call.pc = "done" /\ call.outcome = "threw"
  /\ call.opCalls = Config.maxRetries
  /\ HasStoredProfile
  /\ profileData = EmptyProfile

-----------------------------------------------------------------------------
(* Further properties of StorageLayerManager, checked under Spec *)

\* C13 as stated: after clearData(key) returned true, a loadData(key) made
\* next returns null.
ClearThenLoadAbsent ==
  (last.op = "clearData" /\ last.result = "true")
    => loadData(layerHealth, backend, last.key, {}).result = "null"

\* C13, amended: after clearData(key), every backend whose removal did not
\* throw holds nothing under the key, whichever backends held the value; so
\* when no removal threw on a backend that held the value, a loadData(key)
\* made next returns null, whatever reads throw. A backend whose removal
\* threw keeps its value, and clearData returns true all the same when
\* another removal succeeded.
ClearedBackendsAreEmpty ==
  last.op = "clearData"
    => /\ \A l \in Layers \ last.failed : ~Has(backend[l], last.key)
       /\ \A l \in last.failed : Has(backend[l], last.key) <=> l \in last.held
       /\ (last.held \cap last.failed = {})
            => \A readFails \in SUBSET Layers :
                 loadData(layerHealth, backend, last.key, readFails).result = "null"

\* Only the second backend held the value.
ClearedBackendsAreEmptyReached ==
  /\ last.op = "clearData" /\ last.result = "true"
  /\ last.held = {StorageLayers.SECONDARY}
  /\ last.failed = {StorageLayers.PRIMARY}
  /\ last.healthBefore[StorageLayers.SECONDARY] = LayerStatus.ERROR

\* C14: clearData attempts the removal on all three backends whatever their
\* health, it settles with true or false and never throws, and it returns true
\* iff at least one of the three removals succeeded (false only when all
\* three removals fail).
ClearReportsAnySuccess ==
  last.op = "clearData"
    => /\ last.result \in {"true", "false"}
       /\ last.result = "true" <=> (\E l \in Layers : l \notin last.failed)
       /\ last.result = "false" <=> last.failed = Layers
       /\ \A l \in Layers :
            (l \in last.held /\ l \notin last.failed
               /\ last.healthBefore[l] # LayerStatus.AVAILABLE)
              => ~Has(backend[l], last.key)
       /\ layerHealth = last.healthBefore

\* One removal succeeded, on a backend marked ERROR that held the value.
ClearReportsAnySuccessReached ==
  /\ last.op = "clearData" /\ last.result = "true"
  /\ last.failed = {StorageLayers.PRIMARY, StorageLayers.SECONDARY}
  /\ last.held = Layers
  /\ last.healthBefore[StorageLayers.TERTIARY] = LayerStatus.ERROR
  /\ ~Has(backend[StorageLayers.TERTIARY], last.key)

\* C15 as stated: once checkLayerHealth has restored the primary backend,
\* every subsequent successful saveData writes to the primary.
RecoveredPrimaryTakesEverySave ==
  (last.op = "saveData" /\ last.recovered /\ last.result = "true")
    => last.layer = StorageLayers.PRIMARY

\* C15, amended: checkLayerHealth marks every backend whose probe round trip
\* succeeds AVAILABLE, also one that was marked ERROR, and every other one
\* ERROR. While the primary is marked AVAILABLE, a saveData in which the
\* primary's write does not throw writes to the primary and to no
\* lower-priority backend; a write that throws marks the primary ERROR again
\* and the save falls back.
ProbeThenRecover ==
  /\ last.op = "checkLayerHealth"
       => \A l \in Layers :
            layerHealth[l] = IF l \in last.failed THEN LayerStatus.ERROR
                             ELSE LayerStatus.AVAILABLE
  /\ layerHealth[StorageLayers.PRIMARY] = LayerStatus.AVAILABLE
       => \A key \in Keys, data \in Values,
             writeFails \in SUBSET (Layers \ {StorageLayers.PRIMARY}) :
            LET r == saveData(layerHealth, backend, key, data, writeFails) IN
            /\ r.result = "true"
            /\ r.wrote = StorageLayers.PRIMARY
            /\ r.store[StorageLayers.SECONDARY] = backend[StorageLayers.SECONDARY]
            /\ r.store[StorageLayers.TERTIARY] = backend[StorageLayers.TERTIARY]
  /\ (last.op = "saveData" /\ last.recovered /\ last.result = "true")
       => \/ last.layer = StorageLayers.PRIMARY
          \/ layerHealth[StorageLayers.PRIMARY] = LayerStatus.ERROR

\* A save after the recovery wrote to the primary, over the copy a fallback
\* had left in the secondary.
ProbeThenRecoverReached ==
  /\ last.op = "saveData" /\ last.recovered /\ last.result = "true"
  /\ last.layer = StorageLayers.PRIMARY
  /\ Has(backend[StorageLayers.SECONDARY], last.key)

----------------------------------------------------------------------------
\* Further properties of ProfileStorage and StorageManager, checked under
\* SpecProfile.

\* C16: ProfileStorage.clearProfile() leaves no persisted record behind:
\* a later load returns absent and a new ProfileStorage restores nothing.
ClearProfileRemovesRecord == [][ClearProfile => ~HasStoredProfile']_vars

----------------------------------------------------------------------------
\* Properties of StorageManager.hasValidProfile, checked under SpecValidate.

ReportedValid == last.op = "hasValidProfile" /\ ~Falsy(last.result)

\* C17: hasValidProfile reports a stored record valid only if its version
\* is the current schema version and name, headline, currentRole and
\* company are all non-empty; an absent record is reported invalid.
ValidOnlyIfCurrentAndComplete ==
  /\ ReportedValid
       => /\ HasStoredProfile
          /\ storedProfile.version = STORAGE_KEYS.VERSION
          /\ \A field \in requiredFields : ~Missing(storedProfile[field])
  /\ (last.op = "hasValidProfile" /\ ~HasStoredProfile) => last.result = JsFalse

\* A complete record of the current version was reported valid.
ValidOnlyIfCurrentAndCompleteReached ==
  /\ ReportedValid
  /\ HasStoredProfile
  /\ storedProfile.version = STORAGE_KEYS.VERSION
  /\ call.outcome = "returned"

----------------------------------------------------------------------------
\* Further properties of retryOperation, checked under SpecRetry.

\* The call record c under another context label.
Relabel(c, context) == [c EXCEPT !.context = context]

\* C18: the context label has no effect on control flow. The attempt that
\* brought a retryOperation call to where it stands, whatever the outcome
\* of the operation was, ends under another label exactly as it did under
\* its own: same count of invocations, same delays, same result or error,
\* same classification and retry verdict.
ContextHasNoEffect ==
  (call.kind = "op" /\ call.opCalls >= 1)
    => LET failed == call.pc = "delay" \/ call.outcome = "threw"
           res == IF failed THEN Raised(call.raised)
                  ELSE Returned(call.value, call.data)
           \* the call as that attempt found it
           c == [call EXCEPT
                   !.pc = IF call.opCalls = 1 THEN "idle" ELSE "delay",
                   !.opCalls = @ - 1,
                   !.failures = IF failed THEN @ - 1 ELSE @,
                   !.delays = IF call.pc = "delay" THEN SubSeq(@, 1, Len(@) - 1) ELSE @,
                   !.outcome = None, !.value = None, !.data = NoData,
                   !.thrown = NoError]
       IN  \A context \in Contexts :
             /\ retryOperation(c, res) = call
             /\ retryOperation(Relabel(c, context), res) = Relabel(call, context)
             /\ failed
                  => LET this == handleError(call.raised, call.context)
                         other == handleError(call.raised, context)
                     IN  this.type = other.type /\ this.shouldRetry = other.shouldRetry

\* A call labelled "ctx-b" is suspended after its second failure.
ContextHasNoEffectReached ==
  /\ call.kind = "op" /\ call.pc = "delay"
  /\ call.context = "ctx-b"
  /\ call.failures = 2

\* The per-call counters stay within Config.maxRetries.
RetryWithinBounds ==
  /\ call.attempt <= Config.maxRetries
  /\ call.opCalls <= Config.maxRetries
  /\ Len(call.delays) <= Config.maxRetries - 1
  /\ call.pc = "done" => call.outcome \in {"returned", "threw"}

\* C19: every retryOperation call runs to completion: a suspended call
\* eventually returns a value or throws, after at most maxRetries = 3
\* invocations of the operation and at most 2 suspensions, and the attempt
\* counter never exceeds maxRetries.
RunsToCompletion ==
  /\ []RetryWithinBounds
  /\ (call.pc = "delay") ~> (call.pc = "done")

\* A call has thrown after three invocations and two suspensions.
RunsToCompletionReached ==
  /\ call.pc = "done" /\ call.outcome = "threw"
  /\ call.attempt = Config.maxRetries
  /\ call.opCalls = Config.maxRetries
  /\ Len(call.delays) = Config.maxRetries - 1

\* C20 as stated: a call whose retryable operation failed three times has
\* slept 1000 ms, 2000 ms and 4000 ms.
ThreeFailuresThreeDelays ==
  (call.failures = 3 /\ shouldRetryError(call.raised))
    => call.delays = <<1000, 2000, 4000>>

\* C20, amended: the n-th suspension of a call lasts
\* min(1000 * 2^(n-1), 5000) ms; a call suspends after its first and second
\* failed attempt only, for 1000 ms and then 2000 ms, and its third failed
\* attempt ends it without a suspension, so 4000 ms never occurs. Delays
\* are non-decreasing and never exceed 5000 ms.
BackoffDelays ==
  /\ \A n \in DOMAIN call.delays :
       /\ call.delays[n] = Min(1000 * Pow(2, n - 1), 5000)
       /\ call.delays[n] <= 5000
       /\ n > 1 => call.delays[n - 1] <= call.delays[n]
  /\ call.delays \in {<<>>, <<1000>>, <<1000, 2000>>}
  /\ call.pc = "delay" => Len(call.delays) = call.failures
  /\ (call.pc = "done" /\ call.outcome = "threw")
       => Len(call.delays) = call.failures - 1

\* A third retryable failure ended a call that had slept 1000 and 2000 ms.
BackoffDelaysReached ==
  /\ call.pc = "done" /\ call.outcome = "threw"
  /\ call.failures = 3 /\ shouldRetryError(call.raised)
  /\ call.delays = <<1000, 2000>>

\* C21: once retryOperation has handled a failure, ErrorHandler.errorCount
\* is a number, the count of the failures handled since the process
\* started or reset() was last called.
ErrorCountIsANumber ==
  call.failures > 0 => (errorCount.defined /\ ~errorCount.nan)

----------------------------------------------------------------------------
\* Further properties of saveData, loadData and checkLayerHealth, checked
\* under Spec.

\* The positions in LayerOrder of the layers that are AVAILABLE and do not
\* throw, and the first such layer.
Accepting(health, fails) ==
  {i \in DOMAIN LayerOrder :
     health[LayerOrder[i]] = LayerStatus.AVAILABLE /\ LayerOrder[i] \notin fails}
FirstAccepting(health, fails) ==
  LayerOrder[CHOOSE i \in Accepting(health, fails) :
               \A j \in Accepting(health, fails) : i <= j]

\* C22: a successful saveData(key, v) writes v to exactly one backend, the
\* first in the order primary, secondary, tertiary that is AVAILABLE and
\* whose write succeeds, and leaves what every other backend stores
\* unchanged.
SaveWritesExactlyOne ==
  /\ \A key \in Keys, data \in Values, writeFails \in SUBSET Layers :
       LET r == saveData(layerHealth, backend, key, data, writeFails) IN
       r.result = "true"
         => /\ Accepting(layerHealth, writeFails) # {}
            /\ r.wrote = FirstAccepting(layerHealth, writeFails)
            /\ r.store[r.wrote] = setItem(backend[r.wrote], key, Encode(r.wrote, data))
            /\ \A l \in Layers \ {r.wrote} : r.store[l] = backend[l]
  /\ (last.op = "saveData" /\ last.result = "true")
       => /\ last.layer = FirstAccepting(last.healthBefore,
                                         {l \in Layers : layerHealth[l] # last.healthBefore[l]})
          /\ backend[last.layer][last.key] = Encode(last.layer, last.arg)

\* A save landed in the tertiary backend while the primary keeps another,
\* older value under the key.
SaveWritesExactlyOneReached ==
  /\ last.op = "saveData" /\ last.result = "true"
  /\ last.layer = StorageLayers.TERTIARY
  /\ Has(backend[StorageLayers.PRIMARY], last.key)
  /\ backend[StorageLayers.PRIMARY][last.key] # Encode(StorageLayers.PRIMARY, last.arg)

\* C23: within one saveData call an AVAILABLE backend whose write throws is
\* marked ERROR and the call goes on with the next AVAILABLE backend; it
\* returns true if a later backend accepts the write and raises 'all
\* layers failed' only when no AVAILABLE backend accepted it.
SaveFallsBackWithinCall ==
  /\ \A key \in Keys, data \in Values, writeFails \in SUBSET Layers :
       LET r == saveData(layerHealth, backend, key, data, writeFails)
           accepting == Accepting(layerHealth, writeFails)
           tried == {i \in DOMAIN LayerOrder :
                       /\ layerHealth[LayerOrder[i]] = LayerStatus.AVAILABLE
                       /\ \A j \in accepting : i <= j}
       IN  /\ r.result = IF accepting # {} THEN "true" ELSE "threw"
           /\ \A i \in DOMAIN LayerOrder :
                r.health[LayerOrder[i]] =
                  IF i \in tried /\ LayerOrder[i] \in writeFails
                  THEN LayerStatus.ERROR ELSE layerHealth[LayerOrder[i]]
  /\ (last.op = "saveData" /\ last.result = "threw")
       => \A l \in Layers : layerHealth[l] # LayerStatus.AVAILABLE

\* The primary's write threw and the same call wrote the secondary.
SaveFallsBackWithinCallReached ==
  /\ last.op = "saveData" /\ last.result = "true"
  /\ last.healthBefore[StorageLayers.PRIMARY] = LayerStatus.AVAILABLE
  /\ layerHealth[StorageLayers.PRIMARY] = LayerStatus.ERROR
  /\ last.layer = StorageLayers.SECONDARY

\* C24: loadData returns the value of the highest-priority AVAILABLE
\* backend that holds one for the key: it never returns a lower-priority
\* backend's value while a higher-priority backend that is AVAILABLE, and
\* whose read did not throw, holds a value for the key.
FirstHitWins ==
  (last.op = "loadData" /\ last.result = "value")
    => \A i, j \in DOMAIN LayerOrder :
         (LayerOrder[j] = last.layer /\ i < j)
           => ~ /\ layerHealth[LayerOrder[i]] = LayerStatus.AVAILABLE
                /\ Has(backend[LayerOrder[i]], last.key)

\* C25: loadData never raises. A backend whose read throws is marked ERROR
\* and the call goes on with the next backend; when no AVAILABLE backend
\* yields a value the call returns null, also when every read throws or
\* every backend is unhealthy.
LoadNeverRaises ==
  \A key \in Keys, readFails \in SUBSET Layers :
    LET r == loadData(layerHealth, backend, key, readFails)
        yielding == {i \in Accepting(layerHealth, readFails) :
                       /\ Has(backend[LayerOrder[i]], key)
                       /\ Truthy(backend[LayerOrder[i]][key])}
    IN  /\ r.result = IF yielding # {} THEN "value" ELSE "null"
        /\ r.result = "null" => r.data = NoData
        /\ \A i \in DOMAIN LayerOrder :
             r.health[LayerOrder[i]] =
               IF /\ layerHealth[LayerOrder[i]] = LayerStatus.AVAILABLE
                  /\ LayerOrder[i] \in readFails
                  /\ \A j \in yielding : i < j
               THEN LayerStatus.ERROR ELSE layerHealth[LayerOrder[i]]

\* Every backend was AVAILABLE, every read threw, and loadData returned
\* null although a backend holds the key.
LoadNeverRaisesReached ==
  /\ last.op = "loadData" /\ last.result = "null"
  /\ \A l \in Layers : /\ last.healthBefore[l] = LayerStatus.AVAILABLE
                        /\ layerHealth[l] = LayerStatus.ERROR
  /\ \E l \in Layers : Has(backend[l], last.key)

\* C26: checkLayerHealth probes each backend on its own: a backend is
\* AVAILABLE afterwards if its write-then-remove succeeded and ERROR if it
\* threw, whatever its health was and whatever the other probes did; the
\* run itself never throws.
ProbesAreIndependent ==
  \A setFails \in SUBSET Layers, removeFails \in SUBSET Layers :
    setFails \cap removeFails = {}
      => LET r == checkLayerHealth(layerHealth, backend, setFails, removeFails) IN
         /\ r.health = [l \in Layers |->
                          IF l \in setFails \cup removeFails
                          THEN LayerStatus.ERROR ELSE LayerStatus.AVAILABLE]
         /\ r.store = [l \in Layers |->
                         checkLayer(l, backend[l], setFails \cap {l},
                                    removeFails \cap {l}).items]

\* The primary's probe threw, and the same run restored the secondary.
ProbesAreIndependentReached ==
  /\ last.op = "checkLayerHealth"
  /\ last.failed = {StorageLayers.PRIMARY}
  /\ last.healthBefore[StorageLayers.SECONDARY] = LayerStatus.ERROR
  /\ layerHealth[StorageLayers.PRIMARY] = LayerStatus.ERROR
  /\ layerHealth[StorageLayers.SECONDARY] = LayerStatus.AVAILABLE

\* C27: the probe is idempotent and, where it succeeds, free of side
\* effects: a second checkLayerHealth whose probes behave as in the first
\* yields the same health table and the same contents, and a backend whose
\* probe succeeded holds every user key as before and no probe key.
ProbeIsIdempotent ==
  \A setFails \in SUBSET Layers, removeFails \in SUBSET Layers :
    setFails \cap removeFails = {}
      => LET once == checkLayerHealth(layerHealth, backend, setFails, removeFails) IN
         /\ checkLayerHealth(once.health, once.store, setFails, removeFails) = once
         /\ \A l \in Layers \ (setFails \cup removeFails) :
              once.store[l] = removeItem(backend[l], TestKey[l])

\* A run in which every probe succeeded restored a backend that holds a
\* user key.
ProbeIsIdempotentReached ==
  /\ last.op = "checkLayerHealth" /\ last.failed = {}
  /\ \E l \in Layers, key \in Keys :
       /\ last.healthBefore[l] = LayerStatus.ERROR
       /\ layerHealth[l] = LayerStatus.AVAILABLE
       /\ Has(backend[l], key)
       /\ ~Has(backend[l], TestKey[l])

\* C28: the health of a backend changes in two ways only. saveData and
\* loadData move it from AVAILABLE to ERROR, and only for a backend tried
\* before the one that took the write or gave the value; checkLayerHealth
\* moves it to AVAILABLE when its probe succeeded and to ERROR when it
\* threw. A successful write or read and clearData, also with a failing
\* removal, leave every backend's health as it was.
HealthStateMachine ==
  [][\A i \in DOMAIN LayerOrder :
       LET l == LayerOrder[i] IN
       /\ layerHealth'[l] # layerHealth[l]
            => \/ /\ last'.op \in {"saveData", "loadData"}
                  /\ layerHealth[l] = LayerStatus.AVAILABLE
                  /\ layerHealth'[l] = LayerStatus.ERROR
                  /\ \A j \in DOMAIN LayerOrder : LayerOrder[j] = last'.layer => i < j
               \/ /\ last'.op = "checkLayerHealth"
                  /\ layerHealth'[l] = IF l \in last'.failed THEN LayerStatus.ERROR
                                       ELSE LayerStatus.AVAILABLE
       /\ last'.op = "clearData" => layerHealth'[l] = layerHealth[l]
       /\ (last'.op \in {"saveData", "loadData"} /\ last'.layer = l)
            => /\ layerHealth[l] = LayerStatus.AVAILABLE
               /\ layerHealth'[l] = LayerStatus.AVAILABLE
    ]_vars

\* A clearData whose removal threw on an AVAILABLE backend left it
\* AVAILABLE, and left another backend marked ERROR.
HealthStateMachineReached ==
  /\ last.op = "clearData"
  /\ \E l \in last.failed : layerHealth[l] = LayerStatus.AVAILABLE
  /\ \E l \in Layers : layerHealth[l] = LayerStatus.ERROR
  /\ layerHealth = last.healthBefore

\* C29: a backend that is not marked AVAILABLE is neither read nor written
\* by saveData or loadData, whoever calls them, until checkLayerHealth
\* marks it AVAILABLE: such a call gives the same result whether or not
\* the backend would throw, leaves its content and health as they are and
\* never takes a value from it. While no backend is AVAILABLE every
\* saveData fails and every loadData returns null, even if a backend
\* holds the value.
ErrorBackendsAreSkipped ==
  LET down == {l \in Layers : layerHealth[l] # LayerStatus.AVAILABLE} IN
  /\ \A key \in Keys, fails \in SUBSET (Layers \ down) :
       LET load == loadData(layerHealth, backend, key, fails) IN
       /\ load = loadData(layerHealth, backend, key, fails \cup down)
       /\ load.from \notin down
       /\ \A l \in down : load.health[l] = layerHealth[l]
       /\ down = Layers => load.result = "null"
       /\ \A data \in Values :
            LET save == saveData(layerHealth, backend, key, data, fails) IN
            /\ save = saveData(layerHealth, backend, key, data, fails \cup down)
            /\ save.wrote \notin down
            /\ \A l \in down : /\ save.store[l] = backend[l]
                                /\ save.health[l] = layerHealth[l]
            /\ down = Layers => save.result = "threw"
  /\ last.op \in {"saveData", "loadData"}
       => \A l \in Layers :
            last.healthBefore[l] # LayerStatus.AVAILABLE
              => last.layer # l /\ layerHealth[l] = last.healthBefore[l]

\* With all three backends marked ERROR a loadData returned null although
\* a backend holds a value for the key.
ErrorBackendsAreSkippedReached ==
  /\ last.op = "loadData" /\ last.result = "null"
  /\ \A l \in Layers : last.healthBefore[l] = LayerStatus.ERROR
  /\ \E l \in Layers : /\ Has(backend[l], last.key)
                        /\ Truthy(backend[l][last.key])

----------------------------------------------------------------------------
\* Further properties of retryOperation around saveData, checked under
\* SpecRetryTier.

\* C30 as stated: a retry of a save that failed on all backends attempts
\* the backends again, so it succeeds when their writes no longer throw.
RetryReattemptsBackends ==
  (call.kind = "saveData" /\ call.pc = "delay")
    => saveData(layerHealth, backend, call.key, call.arg, {}).result = "true"

\* C30, amended: each retry of a save that failed on all backends runs the
\* whole saveData again, from the primary on in priority order, but the
\* failed attempt has marked every backend ERROR, so the retry attempts a
\* backend only if checkLayerHealth restored one in between; otherwise it
\* touches none and raises 'all layers failed' again.
RetryRerunsCascade ==
  /\ (call.kind = "saveData" /\ call.pc = "delay")
       => /\ call.raised = AllLayersFailed(call.opCalls)
          /\ ~call.recovered => AllDown(layerHealth)
          /\ \A writeFails \in SUBSET Layers :
               LET r == saveData(layerHealth, backend, call.key, call.arg, writeFails) IN
               IF Accepting(layerHealth, writeFails) = {}
               THEN r.result = "threw" /\ r.store = backend
               ELSE /\ r.result = "true"
                    /\ r.wrote = FirstAccepting(layerHealth, writeFails)
  /\ (call.kind = "saveData" /\ call.outcome = "returned" /\ call.opCalls >= 2)
       => call.recovered

\* A probe restored the secondary only, and the retry wrote it.
RetryRerunsCascadeReached ==
  /\ call.kind = "saveData" /\ call.pc = "done" /\ call.outcome = "returned"
  /\ call.opCalls = 2 /\ call.recovered
  /\ layerHealth[StorageLayers.PRIMARY] = LayerStatus.ERROR
  /\ Has(backend[StorageLayers.SECONDARY], call.key)
  /\ backend[StorageLayers.SECONDARY][call.key]
       = Encode(StorageLayers.SECONDARY, call.arg)

-----------------------------------------------------------------------------
(* Further properties of ProfileStorage over StorageManager, checked under *)
(* SpecProfile                                                             *)

\* C31: the record store persists through the tiered cascade: when every
\* attempt of a saveProfile fails on chrome.storage.local while localStorage
\* is healthy, saveProfile still succeeds and the record is in localStorage.
SaveProfileFallsBack ==
  (/\ call.kind = "saveProfile" /\ call.pc = "done"
   /\ call.failures = call.opCalls
   /\ layerHealth[StorageLayers.SECONDARY] = LayerStatus.AVAILABLE)
    => /\ call.outcome = "returned"
       /\ Has(backend[StorageLayers.SECONDARY], STORAGE_KEYS.PROFILE)

\* C32: schema stamping: every record saveProfile writes carries the current
\* schema version and a lastUpdated taken when the attempt runs, whatever
\* version or lastUpdated the object given to saveProfile holds; the record
\* a retry writes is stamped like the record of a first attempt.
SchemaStamping ==
  /\ HasStoredProfile
       => /\ DOMAIN storedProfile = ProfileKeys \cup {"version"}
          /\ storedProfile.version = STORAGE_KEYS.VERSION
          /\ storedProfile.lastUpdated = Timestamp
  /\ \A v \in Versions \cup {Undefined}, t \in {Timestamp, "earlier", Undefined} :
       LET given == [key \in ProfileKeys \cup {"version"} |->
                       IF key = "version" THEN v
                       ELSE IF key = "lastUpdated" THEN t
                       ELSE profileData[key]]
           written == dataToStore(given)
       IN  /\ written.version = STORAGE_KEYS.VERSION
           /\ written.lastUpdated = Timestamp
           /\ \A field \in requiredFields : written[field] = given[field]

\* The third attempt of a saveProfile has written the record.
SchemaStampingReached ==
  /\ call.kind = "saveProfile" /\ call.outcome = "returned"
  /\ call.opCalls = Config.maxRetries
  /\ HasStoredProfile
  /\ storedProfile.version = STORAGE_KEYS.VERSION
  /\ storedProfile.lastUpdated = Timestamp

\* The objects a caller may pass to updateProfile: any of its keys may be
\* missing or undefined, "email" is no field of the record.
PartialUpdates ==
  UNION {[keys -> {Undefined, "B"}] :
           keys \in SUBSET {"name", "company", "lastUpdated", "email"}}

ClearResetsRecord ==
  [][ClearProfile
       => getProfile(profileData', isValid') =
            [key \in ProfileKeys \cup {"isValid"} |->
               IF key = "isValid" THEN "false" ELSE Null]
    ]_vars

\* clearProfile has come while a valid record was being saved: the record
\* in memory is empty, the save in flight still holds the former one.
ClearResetsRecordReached ==
  /\ upd.pc = "saving" /\ upd.detached
  /\ validateProfile(upd.obj)
  /\ profileData = EmptyProfile
  /\ ~isValid

\* C36: the cached flag is consistent with the record: after the
\* constructor and after every completed updateProfile, validateProfile or
\* clearProfile, this.isValid is what validateProfile computes on the
\* record in memory, and getProfile() reports that flag.
CachedFlagIsConsistent ==
  /\ isValid = validateProfile(profileData)
  /\ getProfile(profileData, isValid).isValid =
       (IF \A field \in requiredFields : ~Missing(profileData[field])
        THEN "true" ELSE "false")
  /\ upd = LoadingUpd => ~isValid

\* The constructor's loadFromStorage has passed a stored record through
\* updateProfile: the record in memory is valid and flagged so.
CachedFlagIsConsistentReached ==
  /\ upd.pc = "done" /\ upd.source = "constructor"
  /\ upd.loaded \notin {NoData, NullResult}
  /\ isValid
  /\ validateProfile(profileData)

-----------------------------------------------------------------------------
(* The health table of StorageLayerManager, checked under Spec *)

\* C35: the health table always has exactly three entries, one for each of
\* the primary, secondary and tertiary backend; each entry is always
\* AVAILABLE or ERROR, FULL and UNAVAILABLE are never assigned; and all
\* three are AVAILABLE as long as the manager has run nothing, so before
\* the first probe.
HealthTableShape ==
  /\ DOMAIN layerHealth = Layers
  /\ Cardinality(DOMAIN layerHealth) = 3
  /\ \A l \in Layers :
       layerHealth[l] \in {LayerStatus.AVAILABLE, LayerStatus.ERROR}
  /\ last.op = None
       => \A l \in Layers : layerHealth[l] = LayerStatus.AVAILABLE

\* A save has marked the primary ERROR and a later probe, failing on the
\* tertiary only, has brought it back.
HealthTableShapeReached ==
  /\ last.op = "checkLayerHealth"
  /\ last.healthBefore[StorageLayers.PRIMARY] = LayerStatus.ERROR
  /\ layerHealth[StorageLayers.PRIMARY] = LayerStatus.AVAILABLE
  /\ layerHealth[StorageLayers.SECONDARY] = LayerStatus.AVAILABLE
  /\ layerHealth[StorageLayers.TERTIARY] = LayerStatus.ERROR

-----------------------------------------------------------------------------
(* A further property of StorageManager.hasValidProfile, checked under     *)
(* SpecValidate                                                            *)

\* C40: hasValidProfile never throws: when its load fails at every attempt
\* it resolves to false; its operation always returns, so the retryOperation
\* around it settles at the first attempt; and one hasValidProfile call
\* reads the backend at most maxRetries = 3 times.
ValidateNeverThrows ==
  call.kind = "hasValidProfile"
    => /\ call.opCalls <= Config.maxRetries
       /\ call.pc = "done"
            => /\ last.op = "hasValidProfile"
               /\ last.result # "threw"
               /\ call.outcome = "threw" => last.result = JsFalse
               /\ LET outer == retryOperation(
                                 NewCall("hasValidProfile", STORAGE_KEYS.PROFILE,
                                         NoData, "storage-validate-profile"),
                                 Returned(last.result, NoData))
                  IN  /\ outer.pc = "done" /\ outer.outcome = "returned"
                      /\ outer.opCalls = 1 /\ outer.delays = <<>>
                      /\ outer.value = last.result

\* A complete record of the current version is stored, the read has failed
\* three times, and hasValidProfile has resolved to false.
ValidateNeverThrowsReached ==
  /\ call.kind = "hasValidProfile" /\ call.pc = "done"
  /\ call.outcome = "threw" /\ call.opCalls = Config.maxRetries
  /\ last.op = "hasValidProfile" /\ last.result = JsFalse
  /\ HasStoredProfile
  /\ storedProfile.version = STORAGE_KEYS.VERSION
  /\ \A field \in requiredFields : ~Missing(storedProfile[field])

-----------------------------------------------------------------------------
(* Further properties of ProfileStorage.updateProfile, checked under       *)
(* SpecProfile                                                             *)

-----------------------------------------------------------------------------
(* Properties of overlapping updateProfile calls, checked under            *)
(* SpecOverlap                                                             *)

\* C37: ProfileStorage persists only valid records: no record written
\* through ProfileStorage has an empty name, headline, currentRole or
\* company.
OnlyValidRecordsPersisted ==
  HasStoredProfile
    => \A field \in requiredFields : ~Missing(storedProfile[field])

\* The updateProfile calls of the round in flight or settled.
Started == {e \in Extractors : flights[e].upd.pc # "idle"}

\* C39: overlapping saves converge: once every updateProfile call of a round
\* of at least two has settled with a successful save, the four content
\* fields of the persisted record are those of the record in memory, also
\* when the save of an earlier call was retried after the save of a later
\* call had succeeded.
OverlappingSavesConverge ==
  (/\ Cardinality(Started) >= 2
   /\ \A e \in Started : /\ flights[e].upd.pc = "done"
                          /\ flights[e].call.outcome = "returned")
    => /\ HasStoredProfile
       /\ \A field \in requiredFields : storedProfile[field] = profileData[field]

\* The name call started first and its first attempt failed; the headline
\* call started second and saved at once; the retry of the name call then
\* succeeded.
OverlappingSavesConvergeReached ==
  /\ Started = {"name", "headline"}
  /\ flights["name"].order = 0 /\ flights["headline"].order = 1
  /\ flights["name"].upd.pc = "done" /\ flights["name"].call.outcome = "returned"
  /\ flights["name"].call.opCalls = 2
  /\ "headline" \in flights["name"].wroteAfter
  /\ flights["headline"].upd.pc = "done"
  /\ flights["headline"].call.outcome = "returned"
  /\ flights["headline"].call.opCalls = 1
  /\ flights["name"].upd.obj.headline # profileData.headline
  /\ HasStoredProfile /\ storedProfile.headline = profileData.headline


====
